---------------------------- MODULE Spec2Model ----------------------------
(***************************************************************************)
(* A model of GiNaC's Clifford algebra code (ginac/clifford.cpp) and of    *)
(* the tensor rules it uses (ginac/tensor.cpp).                            *)
(*                                                                         *)
(*   Spec          clifford::simplify_ncmul driven to its fixed point      *)
(*   SpecContract  diracgamma::contract_with / tensor::replace_contr_index *)
(*                 under the contraction dispatcher                        *)
(*   SpecTrace     dirac_trace / trace_string                              *)
(*                                                                         *)
(* An expression (ex) is a finite sum of terms; a term is a coefficient,   *)
(* a polynomial in the symbolic dimension D with integer coefficients,     *)
(* times an ordered word of factors.  An exvector is a sequence of ex.     *)
(***************************************************************************)
EXTENDS Integers, Sequences, FiniteSets

VARIABLES
    \* clifford::simplify_ncmul and its re-evaluation
    pc,                 \* position: "entry", "swept", "squared", "merged", "done"
    v,                  \* the exvector handed to the current call
    s,                  \* the call's working copy (exvector s)
    sign,               \* the call's local int sign
    something_changed,  \* the call's local flag
    acc,                \* product of the signs returned by the finished calls
    scal,               \* commutative factors pulled out of the word so far
    w0,                 \* the word the client built
    ncalls,             \* calls of simplify_ncmul made so far
    \* contraction dispatch
    terms,              \* the expanded expression being simplified
    last,               \* the latest contract_with call: arguments and outcome
    ncontr,             \* successful contractions so far
    firstc,             \* the first of them: "none", "earliest" or "other"
    \* dirac_trace
    e,                  \* the traced word
    rl,                 \* the representation label asked for
    tr,                 \* the trace returned
    \* canonicalize_clifford
    cex,                \* the expression being brought into canonical order
    lastsw,             \* the latest swap: the word, the position, the sum
    \* constructors, eval_indexed and contract_with of the tensors
    call,               \* the call made: the function and its arguments
    res,                \* what it returned or threw
    \* write_unsigned / read_unsigned
    wval,               \* write_unsigned's val, shifted as it is written
    os,                 \* the stream: the bytes written, then what follows
    rd,                 \* read_unsigned's locals and its position
    \* the recursion of trace_string
    stack,              \* the frames of the calls that have not returned
    status              \* "running", "returned" or "failed"

normVars  == <<pc, v, s, sign, something_changed, acc, scal, w0, ncalls>>
contrVars == <<terms, last, ncontr, firstc>>
traceVars == <<e, rl, tr>>
canonVars == <<cex, lastsw>>
evalVars  == <<call, res>>
archVars  == <<wval, os, rd>>
recVars   == <<stack, status>>
vars == <<pc, v, s, sign, something_changed, acc, scal, w0, ncalls,
          terms, last, ncontr, firstc, e, rl, tr, cex, lastsw,
          call, res, wval, os, rd, stack, status>>

---------------------------------------------------------------------------
(* Bounds of the model.                                                    *)

NormMaxLen == 4      \* longest word handed to the normalizer
NormNumIdx == 2      \* index names of the Gamma factors in those words
NumLabels  == 2      \* representation labels 0 .. NumLabels-1

---------------------------------------------------------------------------
(* Scalars: polynomials in the dimension symbol D, lowest degree first,    *)
(* without trailing zeros (<<>> is 0, <<0, 1>> is D).                      *)

Max(a, b) == IF a >= b THEN a ELSE b

RECURSIVE PTrim(_)
PTrim(p) ==
    IF Len(p) = 0 THEN p
    ELSE IF p[Len(p)] = 0 THEN PTrim(SubSeq(p, 1, Len(p) - 1))
    ELSE p

PGet(p, i) == IF i \in 1..Len(p) THEN p[i] ELSE 0

PConst(n) == IF n = 0 THEN <<>> ELSE <<n>>

PAdd(p, q) == PTrim([i \in 1..Max(Len(p), Len(q)) |-> PGet(p, i) + PGet(q, i)])

PNeg(p) == [i \in 1..Len(p) |-> 0 - p[i]]

PSub(p, q) == PAdd(p, PNeg(q))

RECURSIVE PConv(_, _, _, _)
PConv(p, q, k, i) ==
    IF i > Len(p) THEN 0
    ELSE p[i] * PGet(q, k - i + 1) + PConv(p, q, k, i + 1)

PMul(p, q) ==
    IF Len(p) = 0 \/ Len(q) = 0 THEN <<>>
    ELSE PTrim([k \in 1..(Len(p) + Len(q) - 1) |-> PConv(p, q, k, 1)])

---------------------------------------------------------------------------
(* Indices (idx / varidx): a value, symbolic or a concrete integer, the    *)
(* variance and the dimension.                                             *)

DimD == <<0, 1>>

varidx(val, co) == [val |-> val, sym |-> TRUE, co |-> co, dim |-> DimD]

\* varidx(n, dim) with a concrete value n
numidx(n) == [val |-> n, sym |-> FALSE, co |-> FALSE, dim |-> DimD]

\* spinidx(n, 2, co, dotted): a spinor index, of dimension 2
spinidx(n, co, dotted) ==
    [val |-> n, sym |-> TRUE, co |-> co, dim |-> <<2>>, dotted |-> dotted]

is_spinidx(i) == "dotted" \in DOMAIN i

\* idx(n, dim): an index without variance; a spinidx is a varidx, a varidx
\* is an idx
plainidx(n, sym, d) == [val |-> n, sym |-> sym, dim |-> d]

is_varidx(i) == "co" \in DOMAIN i

toggle_variance(i) == [i EXCEPT !.co = ~i.co]

\* dim < other.dim: decided when the difference is a number
DimLess(d1, d2) == Len(PSub(d1, d2)) = 1 /\ PSub(d1, d2)[1] < 0

IsNumericDim(d) == Len(d) <= 1
IsSymbolDim(d)  == d = <<0, 1>>

\* the dimensions can be ordered: idx::minimal_dim does not throw
dims_comparable(d1, d2) ==
    \/ d1 = d2
    \/ DimLess(d1, d2) \/ DimLess(d2, d1)
    \/ IsNumericDim(d1) /\ IsSymbolDim(d2)
    \/ IsSymbolDim(d1) /\ IsNumericDim(d2)

\* indices of one type, and of one dottedness when they are spinor indices
is_dummy_pair(i, j) ==
    /\ i.sym /\ j.sym /\ i.val = j.val
    /\ DOMAIN i = DOMAIN j
    /\ is_spinidx(i) => i.dotted = j.dotted
    /\ is_varidx(i) => i.co # j.co
    /\ dims_comparable(i.dim, j.dim)

---------------------------------------------------------------------------
(* Factors and expressions.                                                *)

CliffordKinds == {"ONE", "G5", "G"}

clifford(k, ix, l) == [k |-> k, ix |-> ix, rl |-> l]

tensor(k, ix) == [k |-> k, ix |-> ix, rl |-> 0]

Term(c, w) == [c |-> c, w |-> w]

ExNum(c)   == IF c = <<>> THEN {} ELSE {Term(c, <<>>)}

ExFac(f)   == {Term(<<1>>, <<f>>)}

ExOne      == ExNum(<<1>>)

IsFac(x)   == \E t \in x : x = {t} /\ t.c = <<1>> /\ Len(t.w) = 1

TheFac(x)  == (CHOOSE t \in x : TRUE).w[1]

IsKind(x, kinds) == IsFac(x) /\ TheFac(x).k \in kinds

is_clifford(x)    == IsKind(x, CliffordKinds)
is_diracone(x)    == IsKind(x, {"ONE"})
is_diracgamma(x)  == IsKind(x, {"G"})
is_diracgamma5(x) == IsKind(x, {"G5"})

op1(x) == TheFac(x).ix[1]

dirac_ONE(l)      == ExFac(clifford("ONE", <<>>, l))
dirac_gamma(i, l) == ExFac(clifford("G", <<i>>, l))
dirac_gamma5(l)   == ExFac(clifford("G5", <<>>, l))

---------------------------------------------------------------------------
(* Tensor evaluation (tensor.cpp).  A symmetric tensor keeps its two       *)
(* indices in canonical order.                                             *)

IdxLess(i, j) ==
    \/ i.val < j.val
    \/ i.val = j.val /\ is_varidx(i) /\ is_varidx(j) /\ ~i.co /\ j.co

Canon2(i, j) == IF IdxLess(j, i) THEN <<j, i>> ELSE <<i, j>>

\* the smaller of two dimensions that can be ordered
minimal_dim(d1, d2) ==
    IF d1 = d2 \/ DimLess(d1, d2) \/ (IsNumericDim(d1) /\ IsSymbolDim(d2))
    THEN d1
    ELSE d2

replace_dim(i, d) == [i EXCEPT !.dim = d]

tensdelta_eval_indexed(i1, i2) ==
    IF is_dummy_pair(i1, i2)
    THEN (IF dims_comparable(i1.dim, i2.dim)
          THEN ExNum(minimal_dim(i1.dim, i2.dim))
          ELSE ExFac(tensor("delta", Canon2(i1, i2))))
    ELSE IF ~i1.sym /\ ~i2.sym
         THEN (IF i1.val = i2.val THEN ExNum(<<1>>) ELSE ExNum(<<>>))
    ELSE ExFac(tensor("delta", Canon2(i1, i2)))

delta_tensor(i1, i2) == tensdelta_eval_indexed(i1, i2)

tensmetric_eval_indexed(k, i1, i2) ==
    LET md == minimal_dim(i1.dim, i2.dim)
        j1 == replace_dim(i1, md)
        j2 == replace_dim(i2, md)
    IN  IF j1.co # j2.co THEN delta_tensor(j1, j2)
        ELSE ExFac(tensor(k, Canon2(j1, j2)))

\* the object minkmetric(pos_sig) as the head of a held indexed object
minkmetric(pos_sig) == IF pos_sig THEN "g+" ELSE "g"

\* the numeric evaluation with one sign for all equal indices
minkmetric_eval_onesign(pos_sig, i1, i2) ==
    IF ~i1.sym /\ ~i2.sym
    THEN (IF i1.val # i2.val THEN ExNum(<<>>)
          ELSE ExNum(<<IF pos_sig THEN 0 - 1 ELSE 1>>))
    ELSE tensmetric_eval_indexed(minkmetric(pos_sig), i1, i2)

\* minkmetric::eval_indexed of the metric with the flag pos_sig
minkmetric_eval(pos_sig, i1, i2) ==
    IF ~i1.sym /\ ~i2.sym
    THEN (IF i1.val # i2.val THEN ExNum(<<>>)
          ELSE IF i1.val = 0 THEN ExNum(<<IF pos_sig THEN 0 - 1 ELSE 1>>)
          ELSE ExNum(<<IF pos_sig THEN 1 ELSE 0 - 1>>))
    ELSE tensmetric_eval_indexed(minkmetric(pos_sig), i1, i2)

\* the numeric evaluation with pos_sig set
minkmetric_eval_indexed_possig(i1, i2) ==
    IF ~i1.sym /\ ~i2.sym
    THEN (IF i1.val # i2.val THEN ExNum(<<>>)
          ELSE IF i1.val = 0 THEN ExNum(<<0 - 1>>)
          ELSE ExNum(<<1>>))
    ELSE tensmetric_eval_indexed("g", i1, i2)

\* the metric lorentz_g builds by default: pos_sig = false
minkmetric_eval_indexed(i1, i2) == minkmetric_eval(FALSE, i1, i2)

lorentz_g(i1, i2) == minkmetric_eval_indexed(i1, i2)

\* metric_tensor(i1, i2) on two varidx: the generic metric
metric_tensor(i1, i2) == tensmetric_eval_indexed("gm", i1, i2)

\* spinmetric::eval_indexed, on the indices in the canonical order of an
\* antisymmetric object
spinmetric_eval_indexed(i1, i2) ==
    IF is_dummy_pair(i1, i2) \/ i1 = i2 THEN ExNum(<<>>)
    ELSE IF ~i1.sym /\ ~i2.sym
         THEN (IF i1.val = i2.val THEN ExNum(<<>>)
               ELSE IF i1.val < i2.val THEN ExNum(<<1>>)
               ELSE ExNum(<<0 - 1>>))
    ELSE IF IdxLess(i2, i1)
         THEN {Term(<<0 - 1>>, <<tensor("spin", <<i2, i1>>)>>)}
    ELSE ExFac(tensor("spin", <<i1, i2>>))

spinor_metric(i1, i2) == spinmetric_eval_indexed(i1, i2)

---------------------------------------------------------------------------
(* clifford::simplify_ncmul, step by step.                                 *)

\* the copy without the test: every factor is pushed back
RemoveONEs_keep(vv) == vv

RemoveONEs(vv) == SelectSeq(vv, LAMBDA x : ~is_diracone(x))

Swap(ss, it) == [ss EXCEPT ![it] = ss[it + 1], ![it + 1] = ss[it]]

\* SweepStep with the test reversed: a gamma5 is moved to the right.
SweepStep_backwards(st, it) ==
    IF is_diracgamma5(st.s[it]) /\ ~is_diracgamma5(st.s[it + 1])
    THEN [s |-> Swap(st.s, it), sign |-> 0 - st.sign, changed |-> TRUE]
    ELSE st

\* SweepStep without the sign flip.
SweepStep_nosign(st, it) ==
    IF ~is_diracgamma5(st.s[it]) /\ is_diracgamma5(st.s[it + 1])
    THEN [s |-> Swap(st.s, it), sign |-> st.sign, changed |-> TRUE]
    ELSE st

\* One comparison of the inner loop: *it against it[1].
SweepStep(st, it) ==
    IF ~is_diracgamma5(st.s[it]) /\ is_diracgamma5(st.s[it + 1])
    THEN [s |-> Swap(st.s, it), sign |-> 0 - st.sign, changed |-> TRUE]
    ELSE st

\* The inner loop: it runs from next_to_last down to first.
RECURSIVE SweepInner(_, _)
SweepInner(st, it) ==
    LET st1 == SweepStep(st, it)
    IN  IF it = 1 THEN st1 ELSE SweepInner(st1, it - 1)

\* The outer loop: next_to_last runs from end - 2 down to first.
RECURSIVE SweepOuter(_, _)
SweepOuter(st, next_to_last) ==
    LET st1 == SweepInner(st, next_to_last)
    IN  IF next_to_last = 1 THEN st1 ELSE SweepOuter(st1, next_to_last - 1)

AnticommuteGamma5(ss) ==
    LET st0 == [s |-> ss, sign |-> 1, changed |-> FALSE]
    IN  IF Len(ss) >= 2 THEN SweepOuter(st0, Len(ss) - 1) ELSE st0

RECURSIVE RemoveGamma5Squares(_)
RemoveGamma5Squares(st) ==
    IF Len(st.s) >= 2 /\ is_diracgamma5(st.s[1]) /\ is_diracgamma5(st.s[2])
    THEN RemoveGamma5Squares([s |-> SubSeq(st.s, 3, Len(st.s)), changed |-> TRUE])
    ELSE st

\* EqualStep without the comparison of the indices.
EqualStep_anygammas(st, it, l) ==
    IF is_diracgamma(st.s[it]) /\ is_diracgamma(st.s[it + 1])
    THEN [s |-> [st.s EXCEPT ![it] = lorentz_g(op1(st.s[it]), op1(st.s[it + 1])),
                             ![it + 1] = dirac_ONE(l)],
          changed |-> TRUE]
    ELSE st

\* One step of the last loop: a = it[0], b = it[1].
EqualStep(st, it, l) ==
    IF /\ is_diracgamma(st.s[it]) /\ is_diracgamma(st.s[it + 1])
       /\ op1(st.s[it]) = op1(st.s[it + 1])
    THEN [s |-> [st.s EXCEPT ![it] = lorentz_g(op1(st.s[it]), op1(st.s[it + 1])),
                             ![it + 1] = dirac_ONE(l)],
          changed |-> TRUE]
    ELSE st

RECURSIVE EqualLoop(_, _, _)
EqualLoop(st, it, l) ==
    IF it >= Len(st.s) THEN st
    ELSE EqualLoop(EqualStep(st, it, l), it + 1, l)

\* the last loop stopped after its first step
RemoveEqualGammas_firstpair(st, l) ==
    IF Len(st.s) >= 2 THEN EqualStep(st, 1, l) ELSE st

RemoveEqualGammas(st, l) == IF Len(st.s) >= 2 THEN EqualLoop(st, 1, l) ELSE st

\* The whole call: what it returns (sign * word) and whether it asks for
\* re-evaluation (nonsimplified_ncmul) or not (simplified_ncmul).
\* (a is the state after the sweep, c the state after the last loop)
simplify_result(a, c, l) ==
    IF Len(c.s) = 0
    THEN [s |-> <<dirac_ONE(l)>>, sign |-> a.sign, again |-> FALSE]
    ELSE [s |-> c.s, sign |-> a.sign, again |-> c.changed]

simplify_swept(a, l) ==
    simplify_result(a,
        RemoveEqualGammas(
            RemoveGamma5Squares([s |-> a.s, changed |-> a.changed]), l),
        l)

simplify_ncmul(vv, l) == simplify_swept(AnticommuteGamma5(RemoveONEs(vv)), l)

\* Re-evaluation of a product: the commutative factors leave the word.
reeval_word(ss)    == SelectSeq(ss, LAMBDA x : is_clifford(x))
reeval_scalars(ss) == SelectSeq(ss, LAMBDA x : ~is_clifford(x))

---------------------------------------------------------------------------
(* Specification Spec: a client builds a word of Clifford factors of one   *)
(* label; the word is normalized until no rule fires.                      *)

Labels == 0..(NumLabels - 1)

NormIdx == {varidx(n, FALSE) : n \in 1..NormNumIdx} \cup {varidx(1, TRUE)}

NormAlphabet(l) ==
    {dirac_ONE(l), dirac_gamma5(l)} \cup {dirac_gamma(i, l) : i \in NormIdx}

NormWords(l) == UNION {[1..n -> NormAlphabet(l)] : n \in 1..NormMaxLen}

IdleContr ==
    /\ terms = {} /\ last = [ok |-> FALSE] /\ ncontr = 0 /\ firstc = "none"
IdleTrace == /\ e = <<>> /\ rl = 0 /\ tr = [done |-> FALSE, val |-> {}]
IdleCanon == /\ cex = {} /\ lastsw = [ok |-> FALSE]
IdleEval  == /\ call = [op |-> "none"] /\ res = [done |-> FALSE]
IdleArch  == /\ wval = 0 /\ os = <<>> /\ rd = [phase |-> "idle"]
IdleRec   == /\ stack = <<>> /\ status = "idle"

Init ==
    /\ \E l \in Labels : \E w \in NormWords(l) : w0 = w /\ v = w
    /\ pc = "entry"
    /\ s = <<>>
    /\ sign = 1
    /\ something_changed = FALSE
    /\ acc = 1
    /\ scal = <<>>
    /\ ncalls = 0
    /\ IdleContr
    /\ IdleTrace
    /\ IdleCanon
    /\ IdleEval /\ IdleArch /\ IdleRec

representation_label == TheFac(v[1]).rl

\* lines 218-252: copy without ONEs, then the gamma5 sweep
Sweep ==
    /\ pc = "entry"
    /\ LET a == AnticommuteGamma5(RemoveONEs(v))
       IN  /\ s' = a.s
           /\ sign' = a.sign
           /\ something_changed' = a.changed
    /\ ncalls' = ncalls + 1
    /\ pc' = "swept"
    /\ UNCHANGED <<v, acc, scal, w0, contrVars, traceVars, canonVars,
                   evalVars, archVars, recVars>>

\* lines 254-258
Squares ==
    /\ pc = "swept"
    /\ LET b == RemoveGamma5Squares([s |-> s, changed |-> something_changed])
       IN  /\ s' = b.s
           /\ something_changed' = b.changed
    /\ pc' = "squared"
    /\ UNCHANGED <<v, sign, acc, scal, w0, ncalls, contrVars, traceVars, canonVars,
                   evalVars, archVars, recVars>>

\* lines 260-277
Equal ==
    /\ pc = "squared"
    /\ LET c == RemoveEqualGammas([s |-> s, changed |-> something_changed],
                                  representation_label)
       IN  /\ s' = c.s
           /\ something_changed' = c.changed
    /\ pc' = "merged"
    /\ UNCHANGED <<v, sign, acc, scal, w0, ncalls, contrVars, traceVars, canonVars,
                   evalVars, archVars, recVars>>

\* lines 279-284: the result; a nonsimplified product is evaluated again
Return ==
    /\ pc = "merged"
    /\ acc' = acc * sign
    /\ IF Len(s) = 0
       THEN /\ v' = <<dirac_ONE(representation_label)>>
            /\ pc' = "done"
            /\ scal' = scal
       ELSE IF something_changed
       THEN /\ v' = reeval_word(s)
            /\ scal' = scal \o reeval_scalars(s)
            /\ pc' = "entry"
       ELSE /\ v' = s
            /\ pc' = "done"
            /\ scal' = scal
    /\ UNCHANGED <<s, sign, something_changed, w0, ncalls, contrVars, traceVars, canonVars,
                   evalVars, archVars, recVars>>

Next == Sweep \/ Squares \/ Equal \/ Return

Spec == Init /\ [][Next]_vars

---------------------------------------------------------------------------
(* Specification SpecConcrete: the same normalization, of a word of Gammas *)
(* with concrete indices (exam_clifford.cpp, clifford_check1).             *)

ConcMaxLen == 6      \* Gamma factors in the word

\* the time component and the two space components the check uses
ConcIdx == {numidx(0), numidx(1), numidx(2)}

ConcWords(l) ==
    UNION {[1..n -> {dirac_gamma(i, l) : i \in ConcIdx}] : n \in 1..ConcMaxLen}

InitConcrete ==
    /\ \E l \in Labels : \E w \in ConcWords(l) : w0 = w /\ v = w
    /\ pc = "entry"
    /\ s = <<>>
    /\ sign = 1
    /\ something_changed = FALSE
    /\ acc = 1
    /\ scal = <<>>
    /\ ncalls = 0
    /\ IdleContr
    /\ IdleTrace
    /\ IdleCanon
    /\ IdleEval /\ IdleArch /\ IdleRec

SpecConcrete == InitConcrete /\ [][Next]_vars

---------------------------------------------------------------------------
(* Arithmetic on expressions: sums and (ordered) products of ex.           *)

ExWords(A) == {t.w : t \in A}

ExCoef(A, w) ==
    IF \E t \in A : t.w = w THEN (CHOOSE t \in A : t.w = w).c ELSE <<>>

ExAdd(A, B) ==
    {Term(PAdd(ExCoef(A, w), ExCoef(B, w)), w) :
        w \in {x \in ExWords(A) \cup ExWords(B) :
                  PAdd(ExCoef(A, x), ExCoef(B, x)) # <<>>}}

ExScale(p, A) == IF p = <<>> THEN {} ELSE {Term(PMul(p, t.c), t.w) : t \in A}

ExNeg(A) == ExScale(<<0 - 1>>, A)

RECURSIVE SumPairs(_)
SumPairs(P) ==
    IF P = {} THEN <<>>
    ELSE LET p == CHOOSE q \in P : TRUE
         IN  PAdd(PMul(p[1].c, p[2].c), SumPairs(P \ {p}))

ExMul(A, B) ==
    LET W == {a.w \o b.w : a \in A, b \in B}
        C(w) == SumPairs({p \in A \X B : p[1].w \o p[2].w = w})
    IN  {Term(C(w), w) : w \in {x \in W : C(x) # <<>>}}

RECURSIVE ExProdFrom(_, _)
ExProdFrom(vv, i) ==
    IF i > Len(vv) THEN ExOne ELSE ExMul(vv[i], ExProdFrom(vv, i + 1))

ExProd(vv) == ExProdFrom(vv, 1)

\* the exvector of a word of factors
ExVector(w) == [i \in 1..Len(w) |-> ExFac(w[i])]

---------------------------------------------------------------------------
(* diracgamma::contract_with (clifford.cpp) on the exvector vv, self and   *)
(* other being positions in it.  The result is the return value and the    *)
(* exvector as the call leaves it.                                         *)

AllClifford(vv, from, to) == \A i \in from..to : is_clifford(vv[i])

\* the last branch without the commutation: gamma.mu stays where it was
ContractGeneral_unmoved(vv, self, other) ==
    LET next_to_last == other - 1
        S == ExProd([i \in 1..(next_to_last - 1 - self) |-> vv[self + i]])
        a == ExScale(<<2>>, ExMul(vv[next_to_last], S))
        b == ExMul(ExMul(ExMul(vv[self], S), vv[next_to_last]), vv[other])
    IN  IF ~AllClifford(vv, self + 1, other - 1)
        THEN [ok |-> FALSE, v |-> vv]
        ELSE [ok |-> TRUE,
              v  |-> [i \in 1..Len(vv) |->
                        IF i = self THEN ExAdd(a, ExNeg(b))
                        ELSE IF i \in (self + 1)..other THEN ExOne
                        ELSE vv[i]]]

\* the last branch: gamma~mu S gamma~alpha gamma.mu
ContractGeneral(vv, self, other) ==
    LET next_to_last == other - 1
        S == ExProd([i \in 1..(next_to_last - 1 - self) |-> vv[self + i]])
        a == ExScale(<<2>>, ExMul(vv[next_to_last], S))
        b == ExMul(ExMul(ExMul(vv[self], S), vv[other]), vv[next_to_last])
    IN  IF ~AllClifford(vv, self + 1, other - 1)
        THEN [ok |-> FALSE, v |-> vv]
        ELSE [ok |-> TRUE,
              v  |-> [i \in 1..Len(vv) |->
                        IF i = self THEN ExAdd(a, ExNeg(b))
                        ELSE IF i \in (self + 1)..other THEN ExOne
                        ELSE vv[i]]]

\* gap 0 with the dimension taken to be 4
GammaGap0_four(vv, self, other, dim, l) ==
    [ok |-> TRUE, v |-> [vv EXCEPT ![self] = ExNum(<<4>>), ![other] = dirac_ONE(l)]]

\* gap 2 without the metric term
GammaGap2_nometric(vv, self, other, dim, l) ==
    [ok |-> TRUE,
     v  |-> [vv EXCEPT
               ![self] = ExMul(ExScale(PSub(dim, <<4>>), vv[self + 1]), vv[self + 2]),
               ![self + 1] = ExOne,
               ![self + 2] = ExOne,
               ![other] = ExOne]]

\* gap 1 with 2 - dim written as dim - 2
GammaGap1_swapped(vv, self, other, dim) ==
    [ok |-> TRUE,
     v  |-> [vv EXCEPT ![self] = ExNum(PSub(dim, <<2>>)), ![other] = ExOne]]

GammaGap0(vv, self, other, dim, l) ==
    [ok |-> TRUE, v |-> [vv EXCEPT ![self] = ExNum(dim), ![other] = dirac_ONE(l)]]

GammaGap1(vv, self, other, dim) ==
    [ok |-> TRUE,
     v  |-> [vv EXCEPT ![self] = ExNum(PSub(<<2>>, dim)), ![other] = ExOne]]

GammaGap2(vv, self, other, dim, l) ==
    [ok |-> TRUE,
     v  |-> [vv EXCEPT
               ![self] = ExAdd(
                   ExMul(ExScale(<<4>>, lorentz_g(op1(vv[self + 1]), op1(vv[self + 2]))),
                         dirac_ONE(l)),
                   ExMul(ExScale(PSub(dim, <<4>>), vv[self + 1]), vv[self + 2])),
               ![self + 1] = ExOne,
               ![self + 2] = ExOne,
               ![other] = ExOne]]

diracgamma_contract_with(vv, self, other) ==
    LET l   == TheFac(vv[self]).rl
        dim == op1(vv[self]).dim
    IN  IF ~is_clifford(vv[other]) THEN [ok |-> FALSE, v |-> vv]
        ELSE IF other - self = 1 THEN GammaGap0(vv, self, other, dim, l)
        ELSE IF other - self = 2 /\ is_clifford(vv[self + 1])
             THEN GammaGap1(vv, self, other, dim)
        ELSE IF other - self = 3 /\ is_clifford(vv[self + 1])
                                 /\ is_clifford(vv[self + 2])
             THEN GammaGap2(vv, self, other, dim, l)
        ELSE ContractGeneral(vv, self, other)

---------------------------------------------------------------------------
(* tensor::replace_contr_index and the contract_with of the metric and     *)
(* delta tensors (tensor.cpp).                                             *)

\* other->subs(from == to): the factor rebuilt, and evaluated, with the
\* index replaced
SubsIndex(f, from, to) ==
    LET ix == [i \in 1..Len(f.ix) |-> IF f.ix[i] = from THEN to ELSE f.ix[i]]
    IN  IF f.k = "g" THEN lorentz_g(ix[1], ix[2])
        ELSE IF f.k = "delta" THEN delta_tensor(ix[1], ix[2])
        ELSE IF f.k = "spin" THEN spinor_metric(ix[1], ix[2])
        ELSE IF f.k = "g+" THEN minkmetric_eval(TRUE, ix[1], ix[2])
        ELSE IF f.k = "gm" THEN metric_tensor(ix[1], ix[2])
        ELSE ExFac([f EXCEPT !.ix = ix])

\* the dummy partners of self_idx among other's indices
DummyHits(o, self_idx) ==
    IF self_idx.sym
    THEN {i \in 1..Len(o.ix) : is_dummy_pair(self_idx, o.ix[i])}
    ELSE {}

\* the substitution with free_idx left in its own dimension
TrySelfIndex_owndim(vv, self, other, self_idx, free_idx) ==
    LET o == TheFac(vv[other])
        i == CHOOSE m \in DummyHits(o, self_idx) :
                 \A n \in DummyHits(o, self_idx) : m <= n
    IN  IF ~dims_comparable(self_idx.dim, o.ix[i].dim)
        THEN [ok |-> FALSE, v |-> vv]
        ELSE [ok |-> TRUE,
              v  |-> [vv EXCEPT ![other] = SubsIndex(o, o.ix[i], free_idx),
                                ![self] = ExOne]]

\* the body of the for loop at the first dummy partner of self_idx: the
\* substitution, or "false" when minimal_dim throws
TrySelfIndex(vv, self, other, self_idx, free_idx) ==
    LET o == TheFac(vv[other])
        i == CHOOSE m \in DummyHits(o, self_idx) :
                 \A n \in DummyHits(o, self_idx) : m <= n
    IN  IF ~dims_comparable(self_idx.dim, o.ix[i].dim)
        THEN [ok |-> FALSE, v |-> vv]
        ELSE [ok |-> TRUE,
              v  |-> [vv EXCEPT
                        ![other] = SubsIndex(o, o.ix[i],
                                       replace_dim(free_idx,
                                           minimal_dim(self_idx.dim, o.ix[i].dim))),
                        ![self] = ExOne]]

\* first the first index of self, then the second; a dummy partner found
\* ends the search whether or not the substitution was made
replace_contr_index(vv, self, other) ==
    LET f == TheFac(vv[self])
        o == TheFac(vv[other])
    IN  IF DummyHits(o, f.ix[1]) # {}
        THEN TrySelfIndex(vv, self, other, f.ix[1], f.ix[2])
        ELSE IF DummyHits(o, f.ix[2]) # {}
        THEN TrySelfIndex(vv, self, other, f.ix[2], f.ix[1])
        ELSE [ok |-> FALSE, v |-> vv]

tensdelta_contract_with(vv, self, other) == replace_contr_index(vv, self, other)

\* the metric's rule without the test for a delta partner
tensmetric_contract_with_anypartner(vv, self, other) ==
    replace_contr_index(vv, self, other)

tensmetric_contract_with(vv, self, other) ==
    IF IsKind(vv[other], {"delta"}) THEN [ok |-> FALSE, v |-> vv]
    ELSE replace_contr_index(vv, self, other)

\* the four cases without the signs of the crosswise ones
SpinSpin_nosign(vv, self, other) ==
    LET self_i1  == TheFac(vv[self]).ix[1]
        self_i2  == TheFac(vv[self]).ix[2]
        other_i1 == TheFac(vv[other]).ix[1]
        other_i2 == TheFac(vv[other]).ix[2]
        done(x)  == [ok |-> TRUE, v |-> [vv EXCEPT ![self] = x, ![other] = ExOne]]
    IN  IF is_dummy_pair(self_i1, other_i1)
        THEN (IF is_dummy_pair(self_i2, other_i2) THEN done(ExNum(<<2>>))
              ELSE done(delta_tensor(self_i2, other_i2)))
        ELSE IF is_dummy_pair(self_i1, other_i2)
        THEN (IF is_dummy_pair(self_i2, other_i1) THEN done(ExNum(<<2>>))
              ELSE done(delta_tensor(self_i2, other_i1)))
        ELSE IF is_dummy_pair(self_i2, other_i1)
        THEN done(delta_tensor(self_i1, other_i2))
        ELSE IF is_dummy_pair(self_i2, other_i2)
        THEN done(delta_tensor(self_i1, other_i1))
        ELSE [ok |-> FALSE, v |-> vv]

\* spinmetric::contract_with, other being a spinor metric as well
SpinSpin(vv, self, other) ==
    LET self_i1  == TheFac(vv[self]).ix[1]
        self_i2  == TheFac(vv[self]).ix[2]
        other_i1 == TheFac(vv[other]).ix[1]
        other_i2 == TheFac(vv[other]).ix[2]
        done(x)  == [ok |-> TRUE, v |-> [vv EXCEPT ![self] = x, ![other] = ExOne]]
    IN  IF is_dummy_pair(self_i1, other_i1)
        THEN (IF is_dummy_pair(self_i2, other_i2) THEN done(ExNum(<<2>>))
              ELSE done(delta_tensor(self_i2, other_i2)))
        ELSE IF is_dummy_pair(self_i1, other_i2)
        THEN (IF is_dummy_pair(self_i2, other_i1) THEN done(ExNum(<<0 - 2>>))
              ELSE done(ExNeg(delta_tensor(self_i2, other_i1))))
        ELSE IF is_dummy_pair(self_i2, other_i1)
        THEN done(ExNeg(delta_tensor(self_i1, other_i2)))
        ELSE IF is_dummy_pair(self_i2, other_i2)
        THEN done(delta_tensor(self_i1, other_i1))
        ELSE [ok |-> FALSE, v |-> vv]

\* the loop over other's indices for one choice of self_idx / free_idx
SpinTryIndex(vv, self, other, self_idx, free_idx, sgn) ==
    LET o == TheFac(vv[other])
        i == CHOOSE m \in DummyHits(o, self_idx) :
                 \A n \in DummyHits(o, self_idx) : m <= n
    IN  [ok |-> TRUE,
         v  |-> [vv EXCEPT ![other] = SubsIndex(o, o.ix[i], free_idx),
                           ![self] = ExNum(<<IF self_idx.co THEN sgn
                                             ELSE 0 - sgn>>)]]

\* the generic contraction: first index, then second index with the sign
\* reversed
SpinFallback(vv, self, other) ==
    LET f == TheFac(vv[self])
        o == TheFac(vv[other])
    IN  IF DummyHits(o, f.ix[1]) # {}
        THEN SpinTryIndex(vv, self, other, f.ix[1], f.ix[2], 1)
        ELSE IF DummyHits(o, f.ix[2]) # {}
        THEN SpinTryIndex(vv, self, other, f.ix[2], f.ix[1], 0 - 1)
        ELSE [ok |-> FALSE, v |-> vv]

spinmetric_contract_with(vv, self, other) ==
    IF IsKind(vv[other], {"spin"}) /\ SpinSpin(vv, self, other).ok
    THEN SpinSpin(vv, self, other)
    ELSE IF IsKind(vv[other], {"delta"}) THEN [ok |-> FALSE, v |-> vv]
    ELSE SpinFallback(vv, self, other)

\* the virtual call it1->op(0).bp->contract_with(it1, it2, v); an object
\* without a rule of its own answers false
contract_with(vv, self, other) ==
    LET k == TheFac(vv[self]).k
    IN  IF k = "G" THEN diracgamma_contract_with(vv, self, other)
        ELSE IF k \in {"g", "g+", "gm"} THEN tensmetric_contract_with(vv, self, other)
        ELSE IF k = "delta" THEN tensdelta_contract_with(vv, self, other)
        ELSE IF k = "spin" THEN spinmetric_contract_with(vv, self, other)
        ELSE [ok |-> FALSE, v |-> vv]

---------------------------------------------------------------------------
(* Re-evaluation of a product after a contraction: the Clifford word is    *)
(* normalized to its fixed point, the commutative factors are collected in *)
(* canonical order in front of it.                                         *)

\* r is what one call returned, n the normal form of the word it left
NormalizeJoin(r, n) ==
    [s |-> n.s, sign |-> r.sign * n.sign, scal |-> reeval_scalars(r.s) \o n.scal]

RECURSIVE Normalize(_, _)
NormalizeNext(r, l) ==
    IF r.again THEN NormalizeJoin(r, Normalize(reeval_word(r.s), l))
    ELSE [s |-> r.s, sign |-> r.sign, scal |-> <<>>]

Normalize(vv, l) == NormalizeNext(simplify_ncmul(vv, l), l)

IsCliffordFactor(f) == f.k \in CliffordKinds

B2N(b) == IF b THEN 1 ELSE 0

KindRank(k) ==
    CASE k = "I" -> 0 [] k = "trONE" -> 1 [] k = "delta" -> 2 [] k = "g" -> 3
      [] OTHER -> 4

FacKey(f) ==
    <<KindRank(f.k)>> \o
        [i \in 1..(2 * Len(f.ix)) |->
            IF i % 2 = 1 THEN f.ix[(i + 1) \div 2].val
            ELSE B2N(is_varidx(f.ix[i \div 2]) /\ f.ix[i \div 2].co)]

RECURSIVE LexLess(_, _)
LexLess(a, b) ==
    IF Len(a) = 0 \/ Len(b) = 0 THEN FALSE
    ELSE IF a[1] # b[1] THEN a[1] < b[1]
    ELSE LexLess(Tail(a), Tail(b))

RECURSIVE SortFactors(_)
SortFactors(w) ==
    IF Len(w) <= 1 THEN w
    ELSE LET m == CHOOSE i \in 1..Len(w) :
                      \A j \in 1..Len(w) : ~LexLess(FacKey(w[j]), FacKey(w[i]))
             rest == [i \in 1..(Len(w) - 1) |-> IF i < m THEN w[i] ELSE w[i + 1]]
         IN  <<w[m]>> \o SortFactors(rest)

CanonWord(w) ==
    SortFactors(SelectSeq(w, LAMBDA f : ~IsCliffordFactor(f)))
        \o SelectSeq(w, IsCliffordFactor)

RECURSIVE CanonEx(_)
CanonEx(A) ==
    IF A = {} THEN {}
    ELSE LET t == CHOOSE u \in A : TRUE
         IN  ExAdd({Term(t.c, CanonWord(t.w))}, CanonEx(A \ {t}))

\* the normal form of the Clifford word cl of a term
NormalizeWord(cl) ==
    IF Len(cl) = 0 THEN [s |-> <<>>, sign |-> 1, scal |-> <<>>]
    ELSE Normalize(ExVector(cl), cl[1].rl)

\* the term with coefficient c, commutative factors cm and normal form n
ReevalJoin(c, cm, n) ==
    CanonEx(ExScale(PMul(c, PConst(n.sign)),
                    ExMul(ExProd(ExVector(cm)),
                          ExMul(ExProd(n.scal), ExProd(n.s)))))

Reeval(t) ==
    ReevalJoin(t.c, SelectSeq(t.w, LAMBDA f : ~IsCliffordFactor(f)),
               NormalizeWord(SelectSeq(t.w, IsCliffordFactor)))

RECURSIVE ReevalSum(_)
ReevalSum(A) ==
    IF A = {} THEN {}
    ELSE LET t == CHOOSE u \in A : TRUE
         IN  ExAdd(Reeval(t), ReevalSum(A \ {t}))

---------------------------------------------------------------------------
(* Specification SpecContract: the contraction dispatcher on one product.  *)
(* For every ordered pair (self earlier, other later) of factors that      *)
(* share a dummy index, self's contract_with is asked; after a successful  *)
(* contraction the product is expanded and evaluated again.                *)

ContrMaxLen == 5     \* factors in the product handed to the dispatcher
ContrNumIdx == 3     \* index names in it
MaxContr    == 4    \* contractions followed in one run

AllIdx(w) ==
    {p \in (1..Len(w)) \X (1..2) : p[2] <= Len(w[p[1]].ix)}

IdxAt(w, p) == w[p[1]].ix[p[2]]

\* every index name occurs once, or twice with opposite variance
ValidIndices(w) ==
    \A p \in AllIdx(w) :
        LET same == {q \in AllIdx(w) : IdxAt(w, q).val = IdxAt(w, p).val}
        IN  /\ Cardinality(same) <= 2
            /\ \A q \in same : q # p => IdxAt(w, q).co # IdxAt(w, p).co

\* names are introduced in increasing order
OrderedNames(w) ==
    \A p \in AllIdx(w) : \A n \in 1..(IdxAt(w, p).val - 1) :
        \E q \in AllIdx(w) :
            /\ IdxAt(w, q).val = n
            /\ (q[1] < p[1] \/ (q[1] = p[1] /\ q[2] < p[2]))

\* a name is contravariant where it occurs first
FirstUpper(w) ==
    \A p \in AllIdx(w) :
        IdxAt(w, p).co =>
            \E q \in AllIdx(w) :
                /\ IdxAt(w, q).val = IdxAt(w, p).val
                /\ (q[1] < p[1] \/ (q[1] = p[1] /\ q[2] < p[2]))

ContrIdx == {varidx(n, co) : n \in 1..ContrNumIdx, co \in BOOLEAN}

ContrFactors(l) ==
    {clifford("G", <<i>>, l) : i \in ContrIdx}
        \cup {tensor("g", Canon2(i, j)) :
                  i \in {x \in ContrIdx : ~x.co}, j \in {x \in ContrIdx : ~x.co}}

WellFormed(w) ==
    /\ Cardinality({i \in 1..Len(w) : ~IsCliffordFactor(w[i])}) <= 1
    /\ ValidIndices(w)
    /\ OrderedNames(w)
    /\ FirstUpper(w)

\* the well-formed products of n factors, built factor by factor
RECURSIVE ContrWordsOfLen(_, _)
ContrWordsOfLen(l, n) ==
    IF n = 0 THEN {<<>>}
    ELSE {w \in {Append(u, f) : u \in ContrWordsOfLen(l, n - 1),
                                f \in ContrFactors(l)} : WellFormed(w)}

ContrWords(l) == UNION {ContrWordsOfLen(l, n) : n \in 2..ContrMaxLen}

IdleNorm ==
    /\ pc = "idle" /\ v = <<>> /\ s = <<>> /\ sign = 1
    /\ something_changed = FALSE /\ acc = 1 /\ scal = <<>> /\ ncalls = 0

InitContract ==
    /\ \E l \in Labels : \E w \in ContrWords(l) :
          /\ w0 = w
          /\ terms = {Term(<<1>>, w)}
    /\ last = [ok |-> FALSE, w |-> <<>>, self |-> 0, other |-> 0, v |-> <<>>,
               red |-> {}, earliest |-> FALSE]
    /\ ncontr = 0
    /\ firstc = "none"
    /\ IdleNorm
    /\ IdleTrace
    /\ IdleCanon
    /\ IdleEval /\ IdleArch /\ IdleRec

\* ordered pairs of factors sharing a dummy index
DummyPairs(w) ==
    {p \in (1..Len(w)) \X (1..Len(w)) :
        /\ p[1] < p[2]
        /\ \E a \in 1..Len(w[p[1]].ix) : \E b \in 1..Len(w[p[2]].ix) :
              is_dummy_pair(w[p[1]].ix[a], w[p[2]].ix[b])}

Contractible(w) ==
    {p \in DummyPairs(w) : contract_with(ExVector(w), p[1], p[2]).ok}

\* the pair the dispatcher's scan finds first
IsEarliest(w, p) ==
    /\ p \in Contractible(w)
    /\ \A q \in Contractible(w) :
          p[1] < q[1] \/ (p[1] = q[1] /\ p[2] <= q[2])

Contract(t, p) ==
    \E r \in {contract_with(ExVector(t.w), p[1], p[2])} :
    \E red \in {ReevalSum(ExProd(r.v))} :
        /\ ncontr < MaxContr
        /\ terms' = ExAdd(terms \ {t}, ExScale(t.c, red))
        /\ last' = [ok |-> TRUE, w |-> t.w, self |-> p[1], other |-> p[2],
                    v |-> r.v, red |-> red, earliest |-> IsEarliest(t.w, p)]
        /\ ncontr' = ncontr + 1
        /\ firstc' = IF firstc # "none" THEN firstc
                     ELSE IF IsEarliest(t.w, p) THEN "earliest" ELSE "other"
        /\ UNCHANGED <<w0, pc, v, s, sign, something_changed, acc, scal, ncalls,
                       traceVars, canonVars,
                   evalVars, archVars, recVars>>

\* the dispatcher's own choice: the first contractible pair of a term
ContractEarliest ==
    \E t \in terms : \E p \in Contractible(t.w) :
        IsEarliest(t.w, p) /\ Contract(t, p)

\* any other contractible pair
ContractOther ==
    \E t \in terms : \E p \in Contractible(t.w) :
        ~IsEarliest(t.w, p) /\ Contract(t, p)

\* a pair whose rule answers "no contraction": nothing is rewritten
ContractRefused ==
    \E t \in terms : \E p \in DummyPairs(t.w) \ Contractible(t.w) :
        /\ last' = [ok |-> FALSE, w |-> t.w, self |-> p[1], other |-> p[2],
                    v |-> contract_with(ExVector(t.w), p[1], p[2]).v,
                    red |-> {}, earliest |-> FALSE]
        /\ UNCHANGED <<terms, ncontr, firstc, w0, pc, v, s, sign, something_changed,
                       acc, scal, ncalls, traceVars, canonVars,
                   evalVars, archVars, recVars>>

NextContract == ContractEarliest \/ ContractOther \/ ContractRefused

SpecContract == InitContract /\ [][NextContract]_vars

\* no rule applies any more
ContractDone == \A t \in terms : Contractible(t.w) = {}

---------------------------------------------------------------------------
(* Traces (clifford.cpp).  The result is an ex in the commuting symbols    *)
(* trONE and I, the metric tensors and the epsilon tensor.                 *)

\* product of commuting expressions
CMul(A, B) == CanonEx(ExMul(A, B))

trONE == ExFac(tensor("trONE", <<>>))
I     == ExFac(tensor("I", <<>>))

\* ix without the entries at the positions in S
Rest(ix, S) ==
    [m \in 1..Cardinality({n \in 1..Len(ix) : n \notin S}) |->
        ix[CHOOSE n \in 1..Len(ix) :
              /\ n \notin S
              /\ Cardinality({x \in 1..n - 1 : x \notin S}) = m - 1]]

\* sign of the permutation iv of distinct integers, 0 if two are equal
permutation_sign(iv) ==
    IF \E i, j \in 1..Len(iv) : i < j /\ iv[i] = iv[j] THEN 0
    ELSE IF Cardinality({p \in (1..Len(iv)) \X (1..Len(iv)) :
                            p[1] < p[2] /\ iv[p[1]] > iv[p[2]]}) % 2 = 0
         THEN 1
    ELSE 0 - 1

\* the object tensepsilon(minkowski, pos_sig) as the head of a held indexed
\* object
tensepsilon(minkowski, pos_sig) ==
    IF ~minkowski THEN "eps2" ELSE IF pos_sig THEN "eps+" ELSE "eps"

\* the loop over the indices with a factor for the value 0 only
CovariantSigns_zeroonly(pos_sig, ix) ==
    LET zero == {j \in 1..Len(ix) : ix[j].co /\ ix[j].val = 0}
    IN  IF pos_sig /\ Cardinality(zero) % 2 = 1 THEN 0 - 1 ELSE 1

\* the loop over the indices of a Minkowski epsilon: every covariant index
\* with the value 0 multiplies the sign by -1 if pos_sig, every other
\* covariant index multiplies it by -1 if not pos_sig
CovariantSigns(pos_sig, ix) ==
    LET zero  == {j \in 1..Len(ix) : ix[j].co /\ ix[j].val = 0}
        other == {j \in 1..Len(ix) : ix[j].co /\ ix[j].val # 0}
    IN  IF Cardinality(IF pos_sig THEN zero ELSE other) % 2 = 0
        THEN 1 ELSE 0 - 1

\* the sign the Minkowski epsilon takes from its covariant indices
\* (pos_sig = false)
CovariantSign(ix) == CovariantSigns(FALSE, ix)

\* tensepsilon(minkowski, pos_sig).eval_indexed on indices for which it
\* does not throw
tensepsilon_eval(minkowski, pos_sig, ix) ==
    IF \E i, j \in 1..Len(ix) : i < j /\ is_dummy_pair(ix[i], ix[j]) THEN {}
    ELSE IF \A j \in 1..Len(ix) : ~ix[j].sym
         THEN ExNum(PConst(permutation_sign([j \in 1..Len(ix) |-> ix[j].val])
                             * (IF minkowski THEN CovariantSigns(pos_sig, ix)
                                ELSE 1)))
    ELSE ExFac(tensor(tensepsilon(minkowski, pos_sig), ix))

\* the epsilon tensor lorentz_eps builds by default: pos_sig = false
tensepsilon_eval_indexed(ix) == tensepsilon_eval(TRUE, FALSE, ix)

\* an antisymmetric indexed object keeps its indices in canonical order:
\* the place of ix[j] in that order, the sign of the reordering (0 when two
\* indices are equal) and the reordered indices
IdxRank(ix, j) == Cardinality({k \in 1..Len(ix) : IdxLess(ix[k], ix[j])})

AntiSign(ix) == permutation_sign([j \in 1..Len(ix) |-> IdxRank(ix, j)])

AntiSorted(ix) ==
    [m \in 1..Len(ix) |-> ix[CHOOSE j \in 1..Len(ix) : IdxRank(ix, j) = m - 1]]

Epsilon(ix) ==
    IF AntiSign(ix) = 0 THEN {}
    ELSE ExScale(PConst(AntiSign(ix)), tensepsilon_eval_indexed(AntiSorted(ix)))

eps0123(i1, i2, i3, i4) == Epsilon(<<i1, i2, i3, i4>>)

\* the loop of trace_string without the alternation of the sign
RECURSIVE trace_string(_)
RECURSIVE TraceLoop_nosign(_, _, _, _)
TraceLoop_nosign(ix, i, sgn, result) ==
    IF i >= Len(ix) THEN result
    ELSE TraceLoop_nosign(ix, i + 1, sgn,
             ExAdd(result,
                   ExScale(PConst(sgn),
                           CMul(lorentz_g(ix[1], ix[i + 1]),
                                trace_string(Rest(ix, {1, i + 1}))))))

\* the loop of trace_string: i, sign and result as the loop holds them
RECURSIVE TraceLoop(_, _, _, _)
TraceLoop(ix, i, sgn, result) ==
    IF i >= Len(ix) THEN result
    ELSE TraceLoop(ix, i + 1, 0 - sgn,
             ExAdd(result,
                   ExScale(PConst(sgn),
                           CMul(lorentz_g(ix[1], ix[i + 1]),
                                trace_string(Rest(ix, {1, i + 1}))))))

\* trace_string with the middle term of the four-index branch left out
trace_string_twoterms(ix) ==
    IF Len(ix) = 2 THEN lorentz_g(ix[1], ix[2])
    ELSE IF Len(ix) = 4
         THEN ExAdd(CMul(lorentz_g(ix[1], ix[2]), lorentz_g(ix[3], ix[4])),
                    ExNeg(CMul(lorentz_g(ix[1], ix[3]), lorentz_g(ix[2], ix[4]))))
    ELSE TraceLoop(ix, 1, 1, {})

\* trace_string(ix, num), num = Len(ix)
trace_string(ix) ==
    IF Len(ix) = 2 THEN lorentz_g(ix[1], ix[2])
    ELSE IF Len(ix) = 4
         THEN ExAdd(ExAdd(CMul(lorentz_g(ix[1], ix[2]), lorentz_g(ix[3], ix[4])),
                          CMul(lorentz_g(ix[2], ix[3]), lorentz_g(ix[1], ix[4]))),
                    ExNeg(CMul(lorentz_g(ix[1], ix[3]), lorentz_g(ix[2], ix[4]))))
    ELSE TraceLoop(ix, 1, 1, {})

\* the choices i < j < k < l of the four nested loops
Quads(num) ==
    {q \in (1..num) \X (1..num) \X (1..num) \X (1..num) :
        q[1] < q[2] /\ q[2] < q[3] /\ q[3] < q[4]}

\* iv as the innermost loop fills it
FillIv(num, q) ==
    <<q[1], q[2], q[3], q[4]>> \o Rest([n \in 1..num |-> n], {q[1], q[2], q[3], q[4]})

\* one pass of the innermost loop without the sign
Gamma5Term_nosign(ix, q) ==
    CMul(eps0123(ix[q[1]], ix[q[2]], ix[q[3]], ix[q[4]]),
         trace_string(Rest(ix, {q[1], q[2], q[3], q[4]})))

\* one pass of the innermost loop: what is added to result
Gamma5Term(ix, q) ==
    ExScale(PConst(permutation_sign(FillIv(Len(ix), q))),
            CMul(eps0123(ix[q[1]], ix[q[2]], ix[q[3]], ix[q[4]]),
                 trace_string(Rest(ix, {q[1], q[2], q[3], q[4]}))))

RECURSIVE Gamma5Sum(_, _)
Gamma5Sum(ix, Q) ==
    IF Q = {} THEN {}
    ELSE LET q == CHOOSE x \in Q : TRUE
         IN  ExAdd(Gamma5Term(ix, q), Gamma5Sum(ix, Q \ {q}))

\* the indices of the factors of w from position from on
IndicesFrom(w, from) == [i \in 1..(Len(w) - from + 1) |-> w[from + i - 1].ix[1]]

\* the ncmul branch, has_gamma5
TraceGamma5(w) ==
    IF Len(w) % 2 = 0 \/ Len(w) = 3 THEN {}
    ELSE IF Len(w) = 5
         THEN CMul(CMul(trONE, I),
                   eps0123(w[2].ix[1], w[3].ix[1], w[4].ix[1], w[5].ix[1]))
    ELSE CMul(CMul(trONE, I),
              Gamma5Sum(IndicesFrom(w, 2), Quads(Len(w) - 1)))

\* the ncmul branch, no gamma5
TracePlain(w) ==
    IF Len(w) % 2 = 1 THEN {}
    ELSE IF Len(w) = 2 THEN CMul(trONE, lorentz_g(w[1].ix[1], w[2].ix[1]))
    ELSE CMul(trONE, trace_string(IndicesFrom(w, 1)))

is_clifford_tinfo(w, r) == IsCliffordFactor(w[1]) /\ w[1].rl = r

\* a clifford object traced as if it were the Identity
TraceClifford_asONE(f, r) ==
    IF f.rl = r THEN trONE ELSE {}

\* the branch of a single clifford object
TraceClifford(f, r) ==
    IF f.rl = r /\ f.k = "ONE" THEN trONE ELSE {}

\* the branch of an ncmul
TraceNcmul(w, r) ==
    IF ~is_clifford_tinfo(w, r) THEN {}
    ELSE IF w[1].k = "G5" THEN TraceGamma5(w)
    ELSE TracePlain(w)

\* a clifford object or a product of them
TraceWord(w, r) ==
    IF Len(w) = 1 THEN TraceClifford(w[1], r) ELSE TraceNcmul(w, r)

CliffordPart(w)  == SelectSeq(w, IsCliffordFactor)
CommutingPart(w) == SelectSeq(w, LAMBDA f : ~IsCliffordFactor(f))

\* dirac_trace of the term t: a clifford object or an ncmul when it is a bare
\* word, else a mul, of which the factors not tagged r stay as they are
dirac_trace(t, r) ==
    IF t.c = <<1>> /\ Len(CommutingPart(t.w)) = 0 THEN TraceWord(t.w, r)
    ELSE IF Len(CliffordPart(t.w)) > 0 /\ is_clifford_tinfo(CliffordPart(t.w), r)
         THEN CMul({Term(t.c, CommutingPart(t.w))},
                   TraceWord(CliffordPart(t.w), r))
    ELSE {t}

\* dirac_trace of a sum: the trace is mapped over its terms
RECURSIVE TraceSum(_, _)
TraceSum(A, r) ==
    IF A = {} THEN {}
    ELSE LET t == CHOOSE u \in A : TRUE
         IN  ExAdd(dirac_trace(t, r), TraceSum(A \ {t}, r))

---------------------------------------------------------------------------
(* Specification SpecTrace: a client builds an evaluated product of        *)
(* Clifford factors of one label, possibly times a number, and asks for    *)
(* its trace over a label.                                                 *)

TraceMaxLen == 6     \* Gamma factors in the traced word
TraceNumIdx == 6     \* index names in it
TraceCoef   == 3     \* the number multiplying the word when there is one

TraceIdx == {varidx(n, co) : n \in 1..TraceNumIdx, co \in BOOLEAN}

\* no two equal Gamma factors are neighbours in an evaluated word
NoEqualNeighbours(w) ==
    \A i \in 1..(Len(w) - 1) : w[i] # w[i + 1]

RECURSIVE TraceGammasOfLen(_, _)
TraceGammasOfLen(l, n) ==
    IF n = 0 THEN {<<>>}
    ELSE {w \in {Append(u, clifford("G", <<i>>, l)) :
                    u \in TraceGammasOfLen(l, n - 1), i \in TraceIdx} :
             OrderedNames(w) /\ FirstUpper(w) /\ NoEqualNeighbours(w)}

TraceWords(l) ==
    {<<clifford("ONE", <<>>, l)>>}
        \cup UNION {TraceGammasOfLen(l, n) : n \in 1..TraceMaxLen}
        \cup UNION {{<<clifford("G5", <<>>, l)>> \o u : u \in TraceGammasOfLen(l, n)} :
                       n \in 0..TraceMaxLen}

InitTrace ==
    /\ \E l \in Labels : \E w \in TraceWords(l) : \E c \in {1, TraceCoef} :
          e = Term(<<c>>, w)
    /\ rl \in Labels
    /\ tr = [done |-> FALSE, val |-> {}]
    /\ w0 = <<>>
    /\ IdleNorm
    /\ IdleContr
    /\ IdleCanon
    /\ IdleEval /\ IdleArch /\ IdleRec

DiracTrace ==
    /\ ~tr.done
    /\ tr' = [done |-> TRUE, val |-> dirac_trace(e, rl)]
    /\ UNCHANGED <<e, rl, normVars, contrVars, canonVars,
                   evalVars, archVars, recVars>>

NextTrace == DiracTrace

SpecTrace == InitTrace /\ [][NextTrace]_vars

---------------------------------------------------------------------------
(* canonicalize_clifford (clifford.cpp): a recursive bubble sort that only  *)
(* swaps adjacent gammas.  cl is the Clifford word of one product.         *)

\* it[0].op(1).compare(it[1].op(1)) > 0
OutOfOrder(cl, it) == IdxLess(cl[it + 1].ix[1], cl[it].ix[1])

\* where the scan starts: after a leading gamma5
ScanBegin(cl) == IF cl[1].k = "G5" THEN 2 ELSE 1

\* the positions at which the while loop would swap
Unsorted(cl) ==
    {it \in ScanBegin(cl)..(Len(cl) - 1) : OutOfOrder(cl, it)}

\* the product is an ncmul, its first factor a clifford object, and the
\* scan finds a pair to swap
NeedsSwap(cl) ==
    /\ Len(cl) >= 2
    /\ cl[1].k \in CliffordKinds
    /\ Unsorted(cl) # {}

FirstUnsorted(cl) == CHOOSE it \in Unsorted(cl) : \A j \in Unsorted(cl) : it <= j

\* it[0] = lorentz_g(..); it[1] = 2 with the Identity of the label written
\* next to the number
MetricTerm_withONE(cl, it) ==
    ExProd([i \in 1..Len(cl) |->
              IF i = it THEN lorentz_g(cl[it].ix[1], cl[it + 1].ix[1])
              ELSE IF i = it + 1 THEN ExScale(<<2>>, dirac_ONE(cl[it].rl))
              ELSE ExFac(cl[i])])

\* it[0] = lorentz_g(it[0].op(1), it[1].op(1)); it[1] = _ex2(); ncmul(v)
MetricTerm(cl, it) ==
    ExProd([i \in 1..Len(cl) |->
              IF i = it THEN lorentz_g(cl[it].ix[1], cl[it + 1].ix[1])
              ELSE IF i = it + 1 THEN ExNum(<<2>>)
              ELSE ExFac(cl[i])])

\* the pair left as it was
SwappedTerm_unswapped(cl, it) == ExProd(ExVector(cl))

\* it[0] = save1; it[1] = save0; ncmul(v, true)
SwappedTerm(cl, it) ==
    ExProd([i \in 1..Len(cl) |->
              IF i = it THEN ExFac(cl[it + 1])
              ELSE IF i = it + 1 THEN ExFac(cl[it])
              ELSE ExFac(cl[i])])

\* sum = ncmul(v) - ncmul(v, true), both products evaluated
SwapSum(cl, it) ==
    ExAdd(ReevalSum(MetricTerm(cl, it)),
          ExNeg(ReevalSum(SwappedTerm(cl, it))))

\* the commutative factors and the coefficient of a term times a sum
TermTimes(t, A) ==
    ReevalSum(ExScale(t.c,
                      ExMul(ExProd(ExVector(SelectSeq(t.w, LAMBDA f : ~IsCliffordFactor(f)))),
                            A)))

---------------------------------------------------------------------------
(* Specification SpecCanon: a client hands an evaluated product of Gammas  *)
(* of one label, possibly behind a gamma5, to canonicalize_clifford.  One  *)
(* action is one invocation: it rewrites one product at its first pair out *)
(* of order and leaves the sum to the recursive invocations.               *)

CanonMaxLen == 4     \* Gamma factors in the word
CanonNumIdx == 3     \* index names in it

CanonIdx == {varidx(n, FALSE) : n \in 1..CanonNumIdx}

RECURSIVE CanonGammasOfLen(_, _)
CanonGammasOfLen(l, n) ==
    IF n = 0 THEN {<<>>}
    ELSE {w \in {Append(u, clifford("G", <<i>>, l)) :
                    u \in CanonGammasOfLen(l, n - 1), i \in CanonIdx} :
             NoEqualNeighbours(w)}

CanonWords(l) ==
    UNION {CanonGammasOfLen(l, n) : n \in 2..CanonMaxLen}
        \cup UNION {{<<clifford("G5", <<>>, l)>> \o u : u \in CanonGammasOfLen(l, n)} :
                       n \in 1..(CanonMaxLen - 1)}

InitCanon ==
    /\ \E l \in Labels : \E w \in CanonWords(l) : w0 = w /\ cex = {Term(<<1>>, w)}
    /\ lastsw = [ok |-> FALSE]
    /\ IdleNorm
    /\ IdleContr
    /\ IdleTrace
    /\ IdleEval /\ IdleArch /\ IdleRec

CliffordWord(t) == SelectSeq(t.w, IsCliffordFactor)

\* lines 526-541 on one product of the expression
CanonicalizeSwap ==
    \E t \in cex :
        /\ NeedsSwap(CliffordWord(t))
        /\ \E it \in {FirstUnsorted(CliffordWord(t))} :
           \E sum \in {SwapSum(CliffordWord(t), it)} :
              /\ lastsw' = [ok |-> TRUE, w |-> CliffordWord(t), it |-> it, sum |-> sum]
              /\ cex' = ExAdd(cex \ {t}, TermTimes(t, sum))
        /\ UNCHANGED <<normVars, contrVars, traceVars,
                       evalVars, archVars, recVars>>

CanonDone == \A t \in cex : ~NeedsSwap(CliffordWord(t))

NextCanon == CanonicalizeSwap

SpecCanon == InitCanon /\ [][NextCanon]_vars

(* Specification SpecCall: the dispatcher has found two factors of a       *)
(* product that share an index name with opposite variance and asks the    *)
(* earlier one, self, to contract with the later one, other.  self is a    *)
(* Gamma, a metric or a delta; between the two stand up to CallMaxGap      *)
(* factors that carry other indices.                                       *)

CallMaxGap == 3      \* factors between self and other

\* the dimensions D, 4 and 2 D; 2 D can be ordered with neither of the others
CallDims == {DimD, <<4>>, <<0, 2>>}

\* the index named n with variance co and dimension d
dimidx(n, co, d) == replace_dim(varidx(n, co), d)

Fillers ==
    {clifford("G", <<varidx(n, FALSE)>>, l) : n \in {5, 6}, l \in Labels}
        \cup {tensor("g", <<varidx(7, FALSE), varidx(8, FALSE)>>)}

Middles(n) == {m \in [1..n -> Fillers] : NoEqualNeighbours(m)}

\* Gamma(mu) .. Gamma(mu) with mu the name 2
GammaCalls ==
    {<<clifford("G", <<varidx(2, co)>>, l1)>> \o m
            \o <<clifford("G", <<varidx(2, ~co)>>, l2)>> :
        co \in BOOLEAN, l1 \in Labels, l2 \in Labels,
        m \in UNION {Middles(n) : n \in 0..CallMaxGap}}

\* a metric or a delta with the contracted index c and the free index f
TensorSelf(c, f) ==
    IF f.co = c.co THEN tensor("g", Canon2(c, f))
    ELSE tensor("delta", Canon2(c, f))

\* the partners: a Gamma, a metric, a delta carrying the index c2
TensorOthers(c2, f) ==
    {clifford("G", <<c2>>, l) : l \in Labels}
        \cup {TensorSelf(c2, x) :
                 x \in {y \in {dimidx(n, co, c2.dim) : n \in {1, 3, 4}, co \in BOOLEAN} :
                           y.val = f.val => (y.co # f.co /\ y.co = c2.co)}}

TensorCalls ==
    UNION {{<<TensorSelf(c, f)>> \o m \o <<o>> :
               m \in Middles(0) \cup Middles(1),
               o \in UNION {TensorOthers(dimidx(2, ~c.co, d2), f) : d2 \in CallDims}} :
           c \in {dimidx(2, co, d) : co \in BOOLEAN, d \in CallDims},
           f \in {dimidx(n, co, d) : n \in {1, 3}, co \in BOOLEAN, d \in CallDims}
                    \cup {numidx(0)}}

\* an indexed object A with one spinor index
spinor(i) == tensor("A", <<i>>)

\* the two indices in the order of a symmetric or antisymmetric object
Ordered(k, i, j) == tensor(k, Canon2(i, j))

\* a spinor metric with the contracted index 2; its partner a delta, a
\* spinor metric or a spinor carrying that index with the other variance
SpinPartners(co) ==
    {spinor(spinidx(2, ~co, d)) : d \in BOOLEAN}
        \cup {Ordered(k, spinidx(2, ~co, FALSE), x) :
                  k \in {"spin", "delta"},
                  x \in {spinidx(n, c, FALSE) : n \in {1, 3, 4}, c \in BOOLEAN}}

SpinCallsOf(co) ==
    {<<Ordered("spin", spinidx(2, co, FALSE), f)>> \o m \o <<o>> :
        f \in {spinidx(n, c, FALSE) : n \in {1, 3}, c \in BOOLEAN},
        m \in Middles(0) \cup Middles(1),
        o \in SpinPartners(co)}

SpinCalls == SpinCallsOf(TRUE) \cup SpinCallsOf(FALSE)

\* an index name stands at most twice in a product, and then with both
\* variances
NamesPaired(w) ==
    \A p \in AllIdx(w) : \A q \in AllIdx(w) :
        (p # q /\ IdxAt(w, p).val = IdxAt(w, q).val) =>
            IdxAt(w, p).co # IdxAt(w, q).co

\* both indices of a tensor have one dimension
OneDimension(w) ==
    \A i \in 1..Len(w) : \A a, b \in 1..Len(w[i].ix) : w[i].ix[a].dim = w[i].ix[b].dim

CallWords ==
    GammaCalls \cup {w \in TensorCalls : OneDimension(w)}
        \cup {w \in SpinCalls : NamesPaired(w)}

InitCall ==
    /\ w0 \in CallWords
    /\ last = [ok |-> FALSE, w |-> <<>>, self |-> 0, other |-> 0, v |-> <<>>,
               red |-> {}, earliest |-> FALSE]
    /\ terms = {}
    /\ ncontr = 0
    /\ firstc = "none"
    /\ pc = "idle" /\ v = <<>> /\ s = <<>> /\ sign = 1
    /\ something_changed = FALSE /\ acc = 1 /\ scal = <<>> /\ ncalls = 0
    /\ IdleTrace
    /\ IdleCanon
    /\ IdleEval /\ IdleArch /\ IdleRec

\* it1->op(0).bp->contract_with(it1, it2, v)
CallContractWith ==
    /\ last.self = 0
    /\ \E r \in {contract_with(ExVector(w0), 1, Len(w0))} :
          last' = [ok |-> r.ok, w |-> w0, self |-> 1, other |-> Len(w0),
                   v |-> r.v, red |-> {}, earliest |-> FALSE]
    /\ UNCHANGED <<terms, ncontr, firstc, normVars, traceVars, canonVars,
                   evalVars, archVars, recVars>>

NextCall == CallContractWith

SpecCall == InitCall /\ [][NextCall]_vars

---------------------------------------------------------------------------
(* tensepsilon::contract_with (tensor.cpp).  The determinant of the matrix *)
(* and simplify_indexed are not part of tensor.cpp.                        *)

\* simplify_indexed on a sum of products of commuting tensors: the first
\* pair of factors whose rule contracts is rewritten until none is left
RECURSIVE simplify_indexed(_)
simplify_term(t) ==
    IF Contractible(t.w) = {} THEN {Term(t.c, CanonWord(t.w))}
    ELSE LET p == CHOOSE q \in Contractible(t.w) : IsEarliest(t.w, q)
         IN  simplify_indexed(
                 ExScale(t.c, CanonEx(ExProd(
                     contract_with(ExVector(t.w), p[1], p[2]).v))))

simplify_indexed(A) ==
    IF A = {} THEN {}
    ELSE LET t == CHOOSE u \in A : TRUE
         IN  ExAdd(simplify_term(t), simplify_indexed(A \ {t}))

\* cols without its k-th entry
Without(cols, k) ==
    [m \in 1..(Len(cols) - 1) |-> IF m < k THEN cols[m] ELSE cols[m + 1]]

\* the determinant of the rows i.. and the columns cols of M, expanded
\* along row i: the terms k.. of the expansion
RECURSIVE Expansion(_, _, _, _)
Expansion(M, i, cols, k) ==
    IF Len(cols) = 0 THEN ExOne
    ELSE IF k > Len(cols) THEN {}
    ELSE ExAdd(ExScale(<<IF k % 2 = 1 THEN 1 ELSE 0 - 1>>,
                       CMul(M[i][cols[k]],
                            Expansion(M, i + 1, Without(cols, k), 1))),
               Expansion(M, i, cols, k + 1))

\* matrix::determinant
determinant(M) == Expansion(M, 1, [j \in 1..Len(M) |-> j], 1)

EpsKinds == {"eps", "eps+", "eps2"}

\* the matrix of the metric tensors of self's and other's indices
EpsMatrix(fs, fo) ==
    LET minkowski == fs.k \in {"eps", "eps+"}
        pos_sig   == fs.k = "eps+"
        variance  == is_varidx(fs.ix[1])
    IN  [i \in 1..Len(fs.ix) |-> [j \in 1..Len(fs.ix) |->
            IF minkowski THEN minkmetric_eval(pos_sig, fs.ix[i], fo.ix[j])
            ELSE IF variance THEN metric_tensor(fs.ix[i], fo.ix[j])
            ELSE delta_tensor(fs.ix[i], fo.ix[j])]]

\* the contraction with the sign of the Euclidean epsilon for both flavours
EpsContract_nosign(vv, self, other, fs, fo) ==
    IF fo.k \in EpsKinds /\ Len(fs.ix) = Len(fo.ix)
    THEN [ok |-> TRUE,
          v  |-> [vv EXCEPT
                    ![self]  = simplify_indexed(determinant(EpsMatrix(fs, fo))),
                    ![other] = ExOne]]
    ELSE [ok |-> FALSE, v |-> vv]

\* tensepsilon::contract_with, fs and fo being the factors *self and *other
EpsContract(vv, self, other, fs, fo) ==
    IF fo.k \in EpsKinds /\ Len(fs.ix) = Len(fo.ix)
    THEN [ok |-> TRUE,
          v  |-> [vv EXCEPT
                    ![self]  = ExScale(<<IF fs.k \in {"eps", "eps+"}
                                         THEN 0 - 1 ELSE 1>>,
                                 simplify_indexed(determinant(EpsMatrix(fs, fo)))),
                    ![other] = ExOne]]
    ELSE [ok |-> FALSE, v |-> vv]

tensepsilon_contract_with(vv, self, other) ==
    EpsContract(vv, self, other, TheFac(vv[self]), TheFac(vv[other]))

---------------------------------------------------------------------------
(* Single calls of the tensors' eval_indexed, contract_with and of the     *)
(* constructors (tensor.cpp), on every argument list of a bounded family.  *)

EvalMaxVal == 3
EvalNumIdx == 2

EvalDims == {DimD, <<4>>}

\* varidx(n, d) with a concrete value n, of either variance
numvaridx(n, co, d) == [val |-> n, sym |-> FALSE, co |-> co, dim |-> d]

EvalVaridx ==
    {dimidx(n, co, d) : n \in 1..EvalNumIdx, co \in BOOLEAN, d \in EvalDims}
        \cup {numvaridx(n, co, d) :
                  n \in 0..EvalMaxVal, co \in BOOLEAN, d \in EvalDims}

MetricCalls ==
    {[op |-> "minkmetric", pos_sig |-> ps, ix |-> <<i1, i2>>] :
        ps \in BOOLEAN, i1 \in EvalVaridx, i2 \in EvalVaridx}

\* spinidx(n, 2) with a concrete value n, undotted
numspinidx(n, co) ==
    [val |-> n, sym |-> FALSE, co |-> co, dim |-> <<2>>, dotted |-> FALSE]

EvalSpinidx ==
    {spinidx(n, co, d) : n \in 1..EvalNumIdx + 1, co \in BOOLEAN, d \in BOOLEAN}
        \cup {numspinidx(n, co) : n \in 0..EvalMaxVal, co \in BOOLEAN}

SpinEvalCalls ==
    {[op |-> "spinmetric", ix |-> <<i1, i2>>] :
        i1 \in EvalSpinidx, i2 \in EvalSpinidx}

\* the indices of one factor have different names
OwnNames(f) == \A i, j \in 1..Len(f.ix) : i # j => f.ix[i].val # f.ix[j].val

\* two spinor metrics with symbolic indices, in whatever order the indices
\* of each stand
SpinMetrics ==
    {f \in {tensor("spin", <<i1, i2>>) :
               i1 \in {i \in EvalSpinidx : i.sym},
               i2 \in {i \in EvalSpinidx : i.sym}} : OwnNames(f)}

SpinContractCalls ==
    {[op |-> "spin_contract", w |-> w] :
        w \in {x \in {<<f1, f2>> : f1 \in SpinMetrics, f2 \in SpinMetrics} :
                  NamesPaired(x)}}

\* idx(n, d) and varidx(n, d) with concrete values
EvalNumeric ==
    {plainidx(n, FALSE, d) : n \in 0..EvalMaxVal, d \in {<<4>>}}
        \cup {numvaridx(n, co, d) :
                  n \in 0..EvalMaxVal, co \in BOOLEAN, d \in {<<4>>}}

SeqsOf(S, n) == [1..n -> S]

\* the Minkowski epsilon on four concrete varidx and on two concrete
\* indices of any kind; the Euclidean epsilon on two and three
EpsilonEvalCalls ==
    {[op |-> "tensepsilon", minkowski |-> TRUE, pos_sig |-> ps, ix |-> ix] :
        ps \in BOOLEAN,
        ix \in SeqsOf({i \in EvalNumeric : is_varidx(i)}, 4)
                 \cup SeqsOf(EvalNumeric, 2)}
        \cup {[op |-> "tensepsilon", minkowski |-> FALSE, pos_sig |-> FALSE,
               ix |-> ix] :
                  ix \in SeqsOf(EvalNumeric, 2) \cup SeqsOf(EvalNumeric, 3)}

\* the sequences of n different index names out of 1..m
Arrangements(n, m) ==
    {f \in [1..n -> 1..m] : \A i, j \in 1..n : i # j => f[i] # f[j]}

\* epsilon tensors of n indices without variance, of dimension n
PlainEps(n, names) ==
    tensor("eps2", [j \in 1..n |-> plainidx(names[j], TRUE, <<n>>)])

\* epsilon tensors of n indices of one variance, of dimension n
VarEps(k, n, names, co) ==
    tensor(k, [j \in 1..n |-> dimidx(names[j], co, <<n>>)])

First(n) == [j \in 1..n |-> j]

\* two epsilon tensors: Euclidean ones of two and three indices, with and
\* without variance, and Minkowski ones of four; also of unequal valence
EpsPairs ==
    {<<PlainEps(2, a), PlainEps(2, b)>> :
        a \in Arrangements(2, EvalNumIdx + 1), b \in Arrangements(2, EvalNumIdx + 1)}
    \cup {<<VarEps("eps2", 2, a, FALSE), VarEps("eps2", 2, b, TRUE)>> :
        a \in Arrangements(2, EvalNumIdx + 1), b \in Arrangements(2, EvalNumIdx + 1)}
    \cup {<<PlainEps(3, First(3)), PlainEps(3, b)>> :
        b \in Arrangements(3, EvalNumIdx + 2)}
    \cup {<<VarEps("eps2", 3, First(3), TRUE), VarEps("eps2", 3, b, FALSE)>> :
        b \in Arrangements(3, EvalNumIdx + 2)}
    \cup {<<VarEps(k, 4, First(4), FALSE), VarEps(k, 4, b, TRUE)>> :
        k \in {"eps", "eps+"}, b \in Arrangements(4, 4)}
    \cup {<<PlainEps(2, First(2)), PlainEps(3, First(3))>>,
          <<PlainEps(2, First(2)),
            tensor("delta", <<plainidx(1, TRUE, <<2>>), plainidx(3, TRUE, <<2>>)>>)>>}

EpsContractCalls == {[op |-> "eps_contract", w |-> w] : w \in EpsPairs}

EvalCalls ==
    MetricCalls \cup SpinEvalCalls \cup SpinContractCalls \cup EpsilonEvalCalls
        \cup EpsContractCalls

Returned(x) == [done |-> TRUE, err |-> "none", ex |-> x]
Thrown(x)   == [done |-> TRUE, err |-> x]

\* the constructors.  indexed(..) is the object as it is handed to the
\* constructor of indexed, clifford(..) the Clifford object
is_idx(x) == "val" \in DOMAIN x

indexed(head, symm, ix) == [head |-> head, symm |-> symm, ix |-> ix]

SameDim(ix) == \A j \in 1..Len(ix) : ix[j].dim = ix[1].dim

make_delta_tensor(i1, i2) ==
    IF ~is_idx(i1) \/ ~is_idx(i2) THEN Thrown("invalid_argument")
    ELSE Returned(indexed("tensdelta", "sy_symm", <<i1, i2>>))

make_metric_tensor(i1, i2) ==
    IF ~is_varidx(i1) \/ ~is_varidx(i2)
    THEN Thrown("invalid_argument")
    ELSE Returned(indexed("tensmetric", "sy_symm", <<i1, i2>>))

make_lorentz_g(i1, i2, pos_sig) ==
    IF ~is_varidx(i1) \/ ~is_varidx(i2)
    THEN Thrown("invalid_argument")
    ELSE Returned(indexed(minkmetric(pos_sig), "sy_symm", <<i1, i2>>))

\* the constructor without the test of the dimension
make_spinor_metric_anydim(i1, i2) ==
    IF ~is_spinidx(i1) \/ ~is_spinidx(i2)
    THEN Thrown("invalid_argument")
    ELSE Returned(indexed("spinmetric", "sy_anti", <<i1, i2>>))

make_spinor_metric(i1, i2) ==
    IF ~is_spinidx(i1) \/ ~is_spinidx(i2)
    THEN Thrown("invalid_argument")
    ELSE IF i1.dim # <<2>> \/ i2.dim # <<2>> THEN Thrown("runtime_error")
    ELSE Returned(indexed("spinmetric", "sy_anti", <<i1, i2>>))

\* epsilon_tensor(i1, i2) and epsilon_tensor(i1, i2, i3)
make_epsilon_tensor(ix) ==
    IF \E j \in 1..Len(ix) : ~is_idx(ix[j]) THEN Thrown("invalid_argument")
    ELSE IF ~SameDim(ix) THEN Thrown("invalid_argument")
    ELSE IF ix[1].dim # <<Len(ix)>> THEN Thrown("runtime_error")
    ELSE Returned(indexed(tensepsilon(FALSE, FALSE), "sy_anti", ix))

make_lorentz_eps(ix, pos_sig) ==
    IF \E j \in 1..4 : ~is_varidx(ix[j])
    THEN Thrown("invalid_argument")
    ELSE IF ~SameDim(ix) THEN Thrown("invalid_argument")
    ELSE IF ix[1].dim # <<4>> THEN Thrown("runtime_error")
    ELSE Returned(indexed(tensepsilon(TRUE, pos_sig), "sy_anti", ix))

make_dirac_gamma(mu, l) ==
    IF ~is_varidx(mu) THEN Thrown("invalid_argument")
    ELSE Returned(clifford("G", <<mu>>, l))

\* an expression that is no index
symbol(n) == [name |-> n]

\* indices of every kind and an expression that is none
AnyKind ==
    {symbol(1)}
        \cup {plainidx(1, TRUE, d) : d \in {<<2>>, <<3>>, <<4>>}}
        \cup {dimidx(1, FALSE, d) : d \in {<<2>>, <<3>>, <<4>>, DimD}}
        \cup {spinidx(1, FALSE, FALSE),
              replace_dim(spinidx(1, FALSE, FALSE), <<4>>)}

FourKinds ==
    {symbol(1), plainidx(1, TRUE, <<4>>), dimidx(1, FALSE, <<4>>),
     dimidx(1, FALSE, <<3>>), dimidx(1, FALSE, DimD),
     replace_dim(spinidx(1, FALSE, FALSE), <<4>>)}

ConstructCalls ==
    {[op |-> "construct", fn |-> fn, pos_sig |-> FALSE, l |-> 0, ix |-> ix] :
        fn \in {"delta_tensor", "metric_tensor", "spinor_metric", "epsilon_tensor"},
        ix \in SeqsOf(AnyKind, 2)}
    \cup {[op |-> "construct", fn |-> "epsilon_tensor", pos_sig |-> FALSE,
           l |-> 0, ix |-> ix] : ix \in SeqsOf(AnyKind, 3)}
    \cup {[op |-> "construct", fn |-> "lorentz_g", pos_sig |-> ps, l |-> 0,
           ix |-> ix] : ps \in BOOLEAN, ix \in SeqsOf(AnyKind, 2)}
    \cup {[op |-> "construct", fn |-> "lorentz_eps", pos_sig |-> ps, l |-> 0,
           ix |-> ix] : ps \in BOOLEAN, ix \in SeqsOf(FourKinds, 4)}
    \cup {[op |-> "construct", fn |-> "dirac_gamma", pos_sig |-> FALSE, l |-> l,
           ix |-> ix] : l \in Labels, ix \in SeqsOf(AnyKind, 1)}

Construct(c) ==
    CASE c.fn = "delta_tensor"   -> make_delta_tensor(c.ix[1], c.ix[2])
      [] c.fn = "metric_tensor"  -> make_metric_tensor(c.ix[1], c.ix[2])
      [] c.fn = "lorentz_g"      -> make_lorentz_g(c.ix[1], c.ix[2], c.pos_sig)
      [] c.fn = "spinor_metric"  -> make_spinor_metric(c.ix[1], c.ix[2])
      [] c.fn = "epsilon_tensor" -> make_epsilon_tensor(c.ix)
      [] c.fn = "lorentz_eps"    -> make_lorentz_eps(c.ix, c.pos_sig)
      [] c.fn = "dirac_gamma"    -> make_dirac_gamma(c.ix[1], c.l)

AllEvalCalls == EvalCalls \cup ConstructCalls

InitEval ==
    /\ call \in AllEvalCalls
    /\ res = [done |-> FALSE]
    /\ w0 = <<>>
    /\ IdleNorm /\ IdleContr /\ IdleTrace /\ IdleCanon /\ IdleArch /\ IdleRec

EvalRest == <<call, normVars, contrVars, traceVars, canonVars, archVars, recVars>>

\* minkmetric(pos_sig).eval_indexed(i)
EvalMinkmetric ==
    /\ call.op = "minkmetric" /\ ~res.done
    /\ res' = Returned(minkmetric_eval(call.pos_sig, call.ix[1], call.ix[2]))
    /\ UNCHANGED EvalRest

\* spinmetric().eval_indexed(i)
EvalSpinmetric ==
    /\ call.op = "spinmetric" /\ ~res.done
    /\ res' = Returned(spinmetric_eval_indexed(call.ix[1], call.ix[2]))
    /\ UNCHANGED EvalRest

\* spinmetric().contract_with(self, other, v), v holding the two factors
EvalSpinContract ==
    /\ call.op = "spin_contract" /\ ~res.done
    /\ res' = Returned(spinmetric_contract_with(ExVector(call.w), 1, 2))
    /\ UNCHANGED EvalRest

\* tensepsilon(minkowski, pos_sig).eval_indexed(i): with concrete values
\* the Minkowski epsilon throws on an index that is no varidx
EvalEpsilon ==
    /\ call.op = "tensepsilon" /\ ~res.done
    /\ res' = IF /\ call.minkowski
                 /\ \A j \in 1..Len(call.ix) : ~call.ix[j].sym
                 /\ \E j \in 1..Len(call.ix) : ~is_varidx(call.ix[j])
              THEN Thrown("runtime_error")
              ELSE Returned(tensepsilon_eval(call.minkowski, call.pos_sig, call.ix))
    /\ UNCHANGED EvalRest

\* tensepsilon(..).contract_with(self, other, v), v holding the two factors
EvalEpsContract ==
    /\ call.op = "eps_contract" /\ ~res.done
    /\ res' = Returned(tensepsilon_contract_with(ExVector(call.w), 1, 2))
    /\ UNCHANGED EvalRest

\* a call of a constructor
EvalConstruct ==
    /\ call.op = "construct" /\ ~res.done
    /\ res' = Construct(call)
    /\ UNCHANGED EvalRest

NextEval ==
    \/ EvalConstruct
    \/ EvalMinkmetric
    \/ EvalSpinmetric
    \/ EvalSpinContract
    \/ EvalEpsilon
    \/ EvalEpsContract

SpecEval == InitEval /\ [][NextEval]_vars

---------------------------------------------------------------------------
(* The recursion of trace_string (clifford.cpp): the frames of the calls   *)
(* that have not returned.  A frame holds the call's num and the i of its  *)
(* loop.                                                                   *)

RecMaxLen == 10

\* the library's limit on the depth of a recursion (basic.h), scaled to the
\* lengths of the words traced here
max_recursion_level == 3

InitRecursion ==
    /\ \E n \in 1..(RecMaxLen \div 2) : stack = <<[num |-> 2 * n, i |-> 1]>>
    /\ status = "running"
    /\ w0 = <<>>
    /\ IdleNorm /\ IdleContr /\ IdleTrace /\ IdleCanon /\ IdleEval /\ IdleArch

RecRest == <<normVars, contrVars, traceVars, canonVars, evalVars, archVars>>

Top == stack[Len(stack)]

\* the call trace_string(v.begin(), num - 2) in the loop of the top frame
TraceStringCall ==
    /\ status = "running"
    /\ Top.num >= 6 /\ Top.i < Top.num
    /\ stack' = Append(stack, [num |-> Top.num - 2, i |-> 1])
    /\ UNCHANGED <<status, RecRest>>

\* the top frame returns: num is 2 or 4, or its loop has ended
TraceStringReturn ==
    /\ status = "running"
    /\ Top.num <= 4 \/ Top.i = Top.num
    /\ IF Len(stack) = 1
       THEN stack' = <<>> /\ status' = "returned"
       ELSE /\ stack' = [SubSeq(stack, 1, Len(stack) - 1) EXCEPT
                            ![Len(stack) - 1].i = @ + 1]
            /\ UNCHANGED status
    /\ UNCHANGED RecRest

NextRecursion == TraceStringCall \/ TraceStringReturn

SpecRecursion == InitRecursion /\ [][NextRecursion]_vars

---------------------------------------------------------------------------
(* Measures on a word.                                                     *)

Positions(ss) == 1..Len(ss)

\* Gamma and Gamma5 factors (Identity factors and scalars are not counted)
NumClifford(ss) ==
    Cardinality({i \in Positions(ss) : IsKind(ss[i], {"G", "G5"})})

\* pairs (non-Gamma5 entry, Gamma5 factor), the non-Gamma5 entry earlier
Displacement(ss) ==
    Cardinality({p \in Positions(ss) \X Positions(ss) :
        p[1] < p[2] /\ ~is_diracgamma5(ss[p[1]]) /\ is_diracgamma5(ss[p[2]])})

\* pairs (Gamma factor, Gamma5 factor), the Gamma factor earlier
GammaDisplacement(ss) ==
    Cardinality({p \in Positions(ss) \X Positions(ss) :
        p[1] < p[2] /\ is_diracgamma(ss[p[1]]) /\ is_diracgamma5(ss[p[2]])})

SignOf(n) == IF n % 2 = 0 THEN 1 ELSE 0 - 1

\* a word of Gamma factors with pairwise distinct indices
DistinctGammas(ww) ==
    /\ \A i \in Positions(ww) : is_diracgamma(ww[i])
    /\ \A i, j \in Positions(ww) : i # j => op1(ww[i]) # op1(ww[j])

---------------------------------------------------------------------------
(* C1: every call of simplify_ncmul in which a rule fired leaves fewer     *)
(* Gamma/Gamma5 factors in the word or fewer pairs (non-Gamma5, Gamma5)    *)
(* with the non-Gamma5 factor earlier; hence re-running it on its own      *)
(* result terminates: the number of calls is bounded by the two measures   *)
(* of the input word plus the final call in which no rule fires.           *)
C1_FiringCallReduces ==
    /\ (pc = "merged" /\ something_changed) =>
           \/ NumClifford(s) < NumClifford(v)
           \/ Displacement(s) < Displacement(v)
    /\ ncalls <= NumClifford(w0) + Displacement(w0) + 1

\* a re-run in which a rule fired and only the displacement went down
C1_Witness ==
    /\ pc = "merged" /\ something_changed /\ ncalls >= 2
    /\ NumClifford(s) = NumClifford(v)
    /\ Displacement(s) < Displacement(v)

(* C2: in one call, after the gamma5 sweep and before the removal of the   *)
(* gamma5 squares, every Gamma5 stands before every non-Gamma5 factor.     *)
C2_Gamma5AtFront ==
    pc = "swept" => Displacement(s) = 0

\* W.Gamma5 -> (-1)^n Gamma5.W and Gamma5.W.Gamma5 -> (-1)^n W, for W a word
\* of n Gamma factors with pairwise distinct indices
Gamma5WordForms ==
    /\ \A l \in Labels : \A n \in 0..(Len(w0) - 1) :
         LET W == SubSeq(w0, 1, n)
         IN  (w0 = W \o <<dirac_gamma5(l)>> /\ DistinctGammas(W)) =>
                 /\ v = <<dirac_gamma5(l)>> \o W
                 /\ acc = SignOf(n)
                 /\ scal = <<>>
    /\ \A l \in Labels : \A n \in 0..(Len(w0) - 2) :
         LET W == SubSeq(w0, 2, n + 1)
         IN  (w0 = <<dirac_gamma5(l)>> \o W \o <<dirac_gamma5(l)>>
                 /\ DistinctGammas(W)) =>
                 /\ v = (IF n = 0 THEN <<dirac_ONE(l)>> ELSE W)
                 /\ acc = SignOf(n)
                 /\ scal = <<>>

(* C3, as amended: at the fixed point the product of the signs of all      *)
(* calls is (-1)^(number of pairs of a Gamma factor before a Gamma5 factor *)
(* in the input, Identity factors not counted); W.Gamma5 becomes           *)
(* (-1)^n Gamma5.W and Gamma5.W.Gamma5 becomes (-1)^n W for a word W of n  *)
(* Gamma factors with pairwise distinct indices.                           *)
C3_Gamma5Sign ==
    pc = "done" =>
        /\ acc = SignOf(GammaDisplacement(w0))
        /\ Gamma5WordForms

\* Gamma5.Gamma(a).Gamma5 has become -Gamma(a)
C3_Witness ==
    /\ pc = "done" /\ Len(w0) = 3 /\ acc = 0 - 1
    /\ is_diracgamma5(w0[1]) /\ is_diracgamma(w0[2]) /\ is_diracgamma5(w0[3])
    /\ v = <<w0[2]>>

(* C3 as stated: the sign is (-1)^(number of pairs of a non-Gamma5 factor  *)
(* before a Gamma5 factor in the input).                                   *)
C3_SignCountsEveryFactor ==
    pc = "done" =>
        /\ acc = SignOf(Displacement(w0))
        /\ Gamma5WordForms

---------------------------------------------------------------------------
(* The latest contract_with call, as the claims speak of it.               *)

\* number of factors between self and other
lastGap == last.other - last.self - 1

\* self and other are Gamma factors and only Clifford factors lie between
lastGammaPair ==
    /\ last.self >= 1
    /\ last.w[last.self].k = "G" /\ last.w[last.other].k = "G"
    /\ \A i \in (last.self + 1)..(last.other - 1) : IsCliffordFactor(last.w[i])

\* the product of the entries self..other of the exvector after the call
lastSpan ==
    ExProd([i \in 1..(lastGap + 2) |-> last.v[last.self + i - 1]])

\* the whole product after the call, before it is evaluated again
lastProduct == ExProd(last.v)

(* C4: diracgamma::contract_with on a Gamma pair sharing a dummy index of  *)
(* dimension dim, only Clifford factors between them, returns true and     *)
(* leaves in self..other dim.ONE for gap 0, (2-dim).a for gap 1 and        *)
(* 4 g(a,b) ONE + (dim-4).a.b for gap 2 (a, b the factors in between);     *)
(* the entries outside self..other are as they were.                       *)
C4_SmallGapRules ==
    (lastGammaPair /\ lastGap <= 2) =>
        LET l   == last.w[last.self].rl
            dim == last.w[last.self].ix[1].dim
            a   == last.w[last.self + 1]
            b   == last.w[last.self + 2]
        IN  /\ last.ok
            /\ lastGap = 0 => lastSpan = ExScale(dim, dirac_ONE(l))
            /\ lastGap = 1 => lastSpan = ExScale(PSub(<<2>>, dim), ExFac(a))
            /\ lastGap = 2 =>
                   lastSpan =
                     ExAdd(ExMul(ExScale(<<4>>, lorentz_g(a.ix[1], b.ix[1])),
                                 dirac_ONE(l)),
                           ExScale(PSub(dim, <<4>>), ExMul(ExFac(a), ExFac(b))))
            /\ \A i \in 1..Len(last.w) :
                   i \notin last.self..last.other => last.v[i] = ExFac(last.w[i])

\* the gap 2 rule has fired on a pair with a factor in front of it
C4_Witness ==
    /\ lastGammaPair /\ lastGap = 2 /\ last.ok /\ last.self > 1
    /\ Cardinality(lastSpan) = 2

---------------------------------------------------------------------------
(* Words of four Gamma factors carrying two dummy pairs.                   *)

FourGammas(w) ==
    Len(w) = 4 /\ \A i \in 1..4 : w[i].k = "G"

\* Gamma(mu) Gamma(nu) Gamma(nu') Gamma(mu')
IsNested(w) ==
    /\ FourGammas(w)
    /\ is_dummy_pair(w[1].ix[1], w[4].ix[1])
    /\ is_dummy_pair(w[2].ix[1], w[3].ix[1])

\* Gamma(mu) Gamma(nu) Gamma(mu') Gamma(nu')
IsInterleaved(w) ==
    /\ FourGammas(w)
    /\ is_dummy_pair(w[1].ix[1], w[3].ix[1])
    /\ is_dummy_pair(w[2].ix[1], w[4].ix[1])

\* p(D) times the Identity of the label of the word w
ScalarIdentity(p, w) == {Term(p, <<clifford("ONE", <<>>, w[1].rl)>>)}

(* C5: when no rule applies any more, the nested word has become D^2 ONE   *)
(* and the interleaved word (2D - D^2) ONE, in every run, that is,         *)
(* whichever contractible pair was contracted first.                       *)
C5_DoubleContractions ==
    ContractDone =>
        /\ IsNested(w0) => terms = ScalarIdentity(<<0, 0, 1>>, w0)
        /\ IsInterleaved(w0) => terms = ScalarIdentity(<<0, 2, 0 - 1>>, w0)

\* the nested word, reduced after the inner pair was contracted first
C5_Witness ==
    /\ ContractDone /\ IsNested(w0) /\ firstc = "other"
    /\ terms = ScalarIdentity(<<0, 0, 1>>, w0)

(* C6, as amended: the interleaved word Gamma(mu) Gamma(nu) Gamma(mu')     *)
(* Gamma(nu') reduces, after full dispatch, to (2D - D^2) ONE.             *)
C6_InterleavedWord ==
    (ContractDone /\ IsInterleaved(w0)) =>
        \E l \in Labels : terms = ExScale(PSub(<<0, 2>>, <<0, 0, 1>>), dirac_ONE(l))

\* the interleaved word, fully dispatched by the earliest-first choice
C6_Witness ==
    /\ ContractDone /\ IsInterleaved(w0) /\ firstc = "earliest" /\ ncontr = 2

(* C6 as stated: the interleaved word reduces, after full dispatch, to     *)
(* D^2 ONE.                                                                *)
C6_InterleavedIsDSquared ==
    (ContractDone /\ IsInterleaved(w0)) =>
        \E l \in Labels : terms = ExScale(<<0, 0, 1>>, dirac_ONE(l))

---------------------------------------------------------------------------
(* Measures of a product for the termination argument.                     *)

NumIndices(w) == Cardinality(AllIdx(w))

\* the factors of w carrying an index named n
Carriers(w, n) ==
    {i \in 1..Len(w) : \E a \in 1..Len(w[i].ix) : w[i].ix[a].val = n}

\* number of factors between the two carriers of the name n (-1 if it does
\* not occur twice)
PairGap(w, n) ==
    IF Cardinality(Carriers(w, n)) # 2 THEN 0 - 1
    ELSE LET i == CHOOSE x \in Carriers(w, n) : \A y \in Carriers(w, n) : x <= y
             j == CHOOSE x \in Carriers(w, n) : \A y \in Carriers(w, n) : x >= y
         IN  j - i - 1

\* the term t of the rewritten product has fewer indices or fewer factors
Reduced(t) ==
    \/ NumIndices(t.w) < NumIndices(last.w)
    \/ Len(t.w) < Len(last.w)

(* C7, as amended: a successful contract_with leaves, in every term it     *)
(* produces, fewer indices or fewer factors than the product it rewrote,   *)
(* except the rule for a Gamma pair three or more factors apart: its       *)
(* second term keeps every index and every factor and has the contracted   *)
(* pair one factor closer together.                                        *)
C7_SuccessReducesOrCloses ==
    last.ok =>
        \A t \in lastProduct :
            \/ Reduced(t)
            \/ /\ lastGammaPair /\ lastGap >= 3
               /\ NumIndices(t.w) = NumIndices(last.w)
               /\ Len(t.w) = Len(last.w)
               /\ PairGap(t.w, last.w[last.self].ix[1].val) = lastGap - 1

\* the general rule has fired: one term reduced, one only closed up
C7_Witness ==
    /\ last.ok /\ lastGammaPair /\ lastGap = 3
    /\ \E t \in lastProduct : Reduced(t)
    /\ \E t \in lastProduct : ~Reduced(t)

(* C7 as stated: a successful contract_with leaves, in every term it       *)
(* produces, fewer indices or fewer factors than the product it rewrote.   *)
C7_EverySuccessReduces ==
    last.ok => \A t \in lastProduct : Reduced(t)

---------------------------------------------------------------------------
(* The trace formulas, as recursions on the string of indices.             *)

\* T(idx1..idxN): Metric(idx1,idx2) for N = 2, else the sum over k = 2..N of
\* (-1)^k Metric(idx1,idx_k) T(the string without idx1 and idx_k)
RECURSIVE TraceFormula(_)
RECURSIVE TraceFormulaFrom(_, _)
TraceFormulaFrom(ix, k) ==
    IF k > Len(ix) THEN {}
    ELSE ExAdd(ExScale(PConst(SignOf(k)),
                       CMul(lorentz_g(ix[1], ix[k]), TraceFormula(Rest(ix, {1, k})))),
               TraceFormulaFrom(ix, k + 1))

TraceFormula(ix) ==
    IF Len(ix) = 2 THEN lorentz_g(ix[1], ix[2]) ELSE TraceFormulaFrom(ix, 2)

\* sign of the permutation moving the positions q[1] < .. < q[4] to the front
MoveToFrontSign(q) == SignOf((q[1] - 1) + (q[2] - 2) + (q[3] - 3) + (q[4] - 4))

\* the sum over the position subsets in Q of
\* sign Epsilon(subset) T(remaining indices)
RECURSIVE SubsetSum(_, _)
SubsetSum(ix, Q) ==
    IF Q = {} THEN {}
    ELSE LET q == CHOOSE x \in Q : TRUE
         IN  ExAdd(ExScale(PConst(MoveToFrontSign(q)),
                           CMul(eps0123(ix[q[1]], ix[q[2]], ix[q[3]], ix[q[4]]),
                                TraceFormula(Rest(ix, {q[1], q[2], q[3], q[4]})))),
                   SubsetSum(ix, Q \ {q}))

\* the traced expression is the bare word e.w, of the label asked for
BareWord == tr.done /\ e.c = <<1>>

\* the factors of e.w from position from on are Gamma factors
GammasFrom(from) == \A i \in from..Len(e.w) : e.w[i].k = "G"

\* number of factors trONE in the term t
NumTrONE(t) == Cardinality({i \in 1..Len(t.w) : t.w[i].k = "trONE"})

(* C8: the trace of a word of N Gamma factors of label rl, N even, is      *)
(* trONE T(idx1..idxN) with T the recursion above, in which trONE occurs   *)
(* once in every term; for N = 4, T is g12 g34 + g23 g14 - g13 g24; the    *)
(* trace of the bare Identity of label rl is trONE.                        *)
C8_TraceRecursion ==
    (BareWord /\ e.w[1].rl = rl) =>
        /\ e.w = <<clifford("ONE", <<>>, rl)>> => tr.val = trONE
        /\ (GammasFrom(1) /\ Len(e.w) % 2 = 0) =>
               /\ tr.val = CMul(trONE, TraceFormula(IndicesFrom(e.w, 1)))
               /\ \A t \in tr.val : NumTrONE(t) = 1
        /\ (GammasFrom(1) /\ Len(e.w) = 4) =>
               LET ix == IndicesFrom(e.w, 1)
               IN  TraceFormula(ix) =
                     ExAdd(ExAdd(CMul(lorentz_g(ix[1], ix[2]), lorentz_g(ix[3], ix[4])),
                                 CMul(lorentz_g(ix[2], ix[3]), lorentz_g(ix[1], ix[4]))),
                           ExNeg(CMul(lorentz_g(ix[1], ix[3]), lorentz_g(ix[2], ix[4]))))

\* six Gamma factors with six different indices: fifteen terms
C8_Witness ==
    /\ BareWord /\ e.w[1].rl = rl /\ GammasFrom(1) /\ Len(e.w) = 6
    /\ Cardinality(tr.val) = 15

(* C9: the trace is 0 for a bare Gamma or Gamma5 factor, for a factor or a *)
(* word of another label than rl, for a word of an odd number of Gamma     *)
(* factors, and for Gamma5 followed by an odd number of Gamma factors or   *)
(* by two.                                                                 *)
C9_TraceVanishes ==
    BareWord =>
        /\ (Len(e.w) = 1 /\ e.w[1].k \in {"G", "G5"}) => tr.val = {}
        /\ e.w[1].rl # rl => tr.val = {}
        /\ (GammasFrom(1) /\ Len(e.w) % 2 = 1) => tr.val = {}
        /\ (e.w[1].k = "G5" /\ GammasFrom(2)
              /\ ((Len(e.w) - 1) % 2 = 1 \/ Len(e.w) - 1 = 2)) => tr.val = {}

\* Gamma5 and two Gamma factors of the label asked for
C9_Witness ==
    /\ BareWord /\ e.w[1].rl = rl /\ e.w[1].k = "G5" /\ Len(e.w) = 3
    /\ tr.val = {}

---------------------------------------------------------------------------
(* Products as a client builds them: evaluated, then traced.               *)

\* the word w with its first factor moved to the end
Rotate(w) == [i \in 1..Len(w) |-> IF i < Len(w) THEN w[i + 1] ELSE w[1]]

\* the word w with its last factor moved to the front
RotateBack(w) == [i \in 1..Len(w) |-> IF i = 1 THEN w[Len(w)] ELSE w[i - 1]]

\* the trace over r of the evaluated product of the factors of w
TraceOfProduct(w, r) == TraceSum(Reeval(Term(<<1>>, w)), r)

(* C11: the trace of a word of an even number of Gamma factors equals the  *)
(* trace of the product with the first factor moved to the end, and the    *)
(* trace of Gamma5 Gamma(a) Gamma(b) Gamma(c) Gamma(d) equals the trace of *)
(* the product Gamma(d) Gamma5 Gamma(a) Gamma(b) Gamma(c).                 *)
C11_TraceCyclic ==
    (BareWord /\ e.w[1].rl = rl) =>
        /\ (GammasFrom(1) /\ Len(e.w) % 2 = 0) =>
               tr.val = TraceOfProduct(Rotate(e.w), rl)
        /\ (e.w[1].k = "G5" /\ GammasFrom(2) /\ Len(e.w) = 5) =>
               tr.val = TraceOfProduct(RotateBack(e.w), rl)

\* Gamma5 and four Gamma factors with a trace that is not zero
C11_Witness ==
    /\ BareWord /\ e.w[1].rl = rl /\ e.w[1].k = "G5" /\ Len(e.w) = 5
    /\ tr.val # {}
    /\ tr.val = TraceOfProduct(RotateBack(e.w), rl)

(* C12: the trace is linear: the trace of the number c times the word w   *)
(* is c times the trace of the bare word w, whatever the label of w.       *)
C12_TraceLinear ==
    tr.done => tr.val = ExScale(e.c, dirac_trace(Term(<<1>>, e.w), rl))

---------------------------------------------------------------------------
(* C13: at the first adjacent pair Gamma(a) Gamma(b) out of order          *)
(* canonicalize_clifford replaces the word by the sum of two terms: the    *)
(* word with the pair rewritten as 2 Metric(a, b) Identity, and minus the  *)
(* word with the pair swapped, all other factors in place; for a word of   *)
(* just the two factors the first term is 2 Metric(a, b) Identity.         *)

C13_SwapIsAnticommutator ==
    lastsw.ok =>
        lastsw.sum = ExAdd(ReevalSum(MetricTerm_withONE(lastsw.w, lastsw.it)),
                           ExNeg(ReevalSum(SwappedTerm(lastsw.w, lastsw.it))))

---------------------------------------------------------------------------
(* C14: canonicalize_clifford terminates; in every word of its result the  *)
(* Gamma indices are in non-decreasing order after an optional leading     *)
(* gamma5; a word already in that order is returned unchanged.             *)

\* the Gammas of cl stand in non-decreasing order behind an optional gamma5
NonDecreasing(cl) ==
    /\ \A i \in 2..Len(cl) : cl[i].k = "G"
    /\ Len(cl) >= 2 => cl[1].k \in {"G", "G5"}
    /\ \A i \in 1..Len(cl) : \A j \in (i + 1)..Len(cl) :
          cl[i].k = "G" => ~IdxLess(cl[j].ix[1], cl[i].ix[1])

ResultSorted == \A t \in cex : NonDecreasing(CliffordWord(t))

\* the pairs of Gammas of cl that stand out of order
Inversions(cl) ==
    Cardinality({p \in (ScanBegin(cl)..Len(cl)) \X (ScanBegin(cl)..Len(cl)) :
                    /\ p[1] < p[2]
                    /\ cl[p[1]].k = "G" /\ cl[p[2]].k = "G"
                    /\ IdxLess(cl[p[2]].ix[1], cl[p[1]].ix[1])})

NumGammas(cl) == Cardinality({i \in 1..Len(cl) : cl[i].k = "G"})

\* a bound on the swaps still to come for a word of n Gammas with k
\* inversions: a swap leaves a word of n - 2 Gammas and one of at most n
\* Gammas with one inversion less
RECURSIVE SwapBudget(_, _)
SwapBudget(n, k) ==
    IF n < 2 \/ k = 0 THEN 0
    ELSE k * (1 + 2 * SwapBudget(n - 2, ((n - 2) * (n - 3)) \div 2))

RECURSIVE Pending(_)
Pending(A) ==
    IF A = {} THEN 0
    ELSE LET t == CHOOSE u \in A : TRUE
         IN  SwapBudget(NumGammas(CliffordWord(t)), Inversions(CliffordWord(t)))
                 + Pending(A \ {t})

C14_CanonTerminatesSorted ==
    /\ [][Pending(cex') < Pending(cex)]_canonVars
    /\ [](CanonDone <=> Pending(cex) = 0)
    /\ [](CanonDone => ResultSorted)
    /\ [](NonDecreasing(w0) => cex = {Term(<<1>>, w0)})

C14_Witness ==
    /\ CanonDone
    /\ ResultSorted
    /\ lastsw.ok
    /\ Len(w0) = CanonMaxLen
    /\ Cardinality(cex) >= 3
    /\ \E t \in cex : Len(CliffordWord(t)) = CanonMaxLen

---------------------------------------------------------------------------
(* C15: normalization is idempotent.  On a word on which no rule applies   *)
(* (no Identity, at most one Gamma5 and only in first position, no two     *)
(* adjacent Gammas with equal index) simplify_ncmul fires no rule and      *)
(* returns the same word with sign +1; applied to the fixed point reached  *)
(* from any word it returns that fixed point unchanged.                    *)

NoRuleApplies(w) ==
    /\ \A i \in 1..Len(w) : ~is_diracone(w[i])
    /\ \A i \in 2..Len(w) : ~is_diracgamma5(w[i])
    /\ \A i \in 1..(Len(w) - 1) :
          ~(/\ is_diracgamma(w[i]) /\ is_diracgamma(w[i + 1])
            /\ op1(w[i]) = op1(w[i + 1]))

C15_Idempotent ==
    /\ NoRuleApplies(w0) =>
          /\ pc = "merged" => (~something_changed /\ s = w0 /\ sign = 1)
          /\ pc = "done" => (v = w0 /\ acc = 1 /\ scal = <<>> /\ ncalls = 1)
    /\ pc = "done" =>
          simplify_ncmul(v, representation_label)
              = [s |-> v, sign |-> 1, again |-> FALSE]

\* a longest word, gamma5 first, on which no rule applies, returned as it was
C15_Witness ==
    /\ pc = "done"
    /\ NoRuleApplies(w0)
    /\ Len(w0) = NormMaxLen
    /\ is_diracgamma5(w0[1])
    /\ v = w0

---------------------------------------------------------------------------
(* C16: Identity factors are neutral.  A word made only of Identity        *)
(* factors normalizes to a single Identity of the word's label with sign   *)
(* +1; a word containing Identity factors normalizes to the same result    *)
(* as the word with those factors deleted.                                 *)

OnlyIdentities(w) == \A i \in 1..Len(w) : is_diracone(w[i])

DeleteIdentities(w) == SelectSeq(w, LAMBDA x : ~is_diracone(x))

C16_IdentityNeutral ==
    pc = "done" =>
        /\ OnlyIdentities(w0) =>
              /\ v = <<dirac_ONE(TheFac(w0[1]).rl)>>
              /\ acc = 1
              /\ scal = <<>>
        /\ ~OnlyIdentities(w0) =>
              [s |-> v, sign |-> acc, scal |-> scal]
                  = Normalize(DeleteIdentities(w0), TheFac(w0[1]).rl)

\* Identity Gamma(a) Identity Gamma(a): the Identity between the two equal
\* Gammas does not keep them apart
C16_Witness ==
    /\ pc = "done"
    /\ Len(w0) = 4
    /\ is_diracone(w0[1]) /\ is_diracgamma(w0[2])
    /\ is_diracone(w0[3]) /\ w0[4] = w0[2]
    /\ v = <<dirac_ONE(TheFac(w0[1]).rl)>>
    /\ Len(scal) = 1

---------------------------------------------------------------------------
(* C17: two literally adjacent Gammas with equal index i are replaced by   *)
(* Metric(i, i) Identity, and nothing else is touched by the rule; of a    *)
(* run of m equal adjacent Gammas exactly floor(m / 2) pairs are           *)
(* replaced; a palindromic word Gamma(i1) .. Gamma(ik) Gamma(ik) ..        *)
(* Gamma(i1) with concrete indices has the fixed point                     *)
(* (Metric(i1, i1) .. Metric(ik, ik)) Identity, which is (-1)^k Identity   *)
(* when all indices are at least 1.                                        *)

\* the maximal runs a..b of equal Gammas of the word x
MaxRuns(x) ==
    {r \in (1..Len(x)) \X (1..Len(x)) :
        /\ r[1] <= r[2]
        /\ \A i \in r[1]..r[2] : is_diracgamma(x[i]) /\ x[i] = x[r[1]]
        /\ r[1] > 1 => x[r[1] - 1] # x[r[1]]
        /\ r[2] < Len(x) => x[r[2] + 1] # x[r[1]]}

\* y is x with the pairs of every run replaced, from the left
PairsReplaced(x, y, l) ==
    /\ Len(y) = Len(x)
    /\ \A i \in 1..Len(x) : ~is_diracgamma(x[i]) => y[i] = x[i]
    /\ \A r \in MaxRuns(x) : \A i \in r[1]..r[2] :
          IF (i - r[1]) % 2 = 1 THEN y[i] = dirac_ONE(l)
          ELSE IF i < r[2] THEN y[i] = lorentz_g(op1(x[i]), op1(x[i]))
          ELSE y[i] = x[i]

Palindrome(w) ==
    /\ Len(w) % 2 = 0
    /\ \A i \in 1..Len(w) : w[i] = w[Len(w) + 1 - i]

\* Metric(i1, i1) .. Metric(ik, ik) for the first half of w
MetricProduct(w) ==
    ExProd([j \in 1..(Len(w) \div 2) |-> lorentz_g(op1(w[j]), op1(w[j]))])

C17_EqualAdjacentGammas ==
    /\ pc = "squared" =>
          PairsReplaced(s,
              RemoveEqualGammas([s |-> s, changed |-> something_changed],
                                representation_label).s,
              representation_label)
    /\ (pc = "done" /\ Palindrome(w0)) =>
          /\ v = <<dirac_ONE(TheFac(w0[1]).rl)>>
          /\ ExScale(<<acc>>, ExProd(scal)) = MetricProduct(w0)
          /\ (\A i \in 1..Len(w0) : op1(w0[i]).val >= 1) =>
                ExScale(<<acc>>, ExProd(scal)) = ExNum(<<SignOf(Len(w0) \div 2)>>)

\* Gamma(2) Gamma(1) Gamma(1) Gamma(2) has become the Identity
C17_Witness ==
    /\ pc = "done"
    /\ Len(w0) = 4
    /\ op1(w0[1]) = numidx(2) /\ op1(w0[2]) = numidx(1)
    /\ op1(w0[3]) = numidx(1) /\ op1(w0[4]) = numidx(2)
    /\ v = <<dirac_ONE(TheFac(w0[1]).rl)>>
    /\ ExScale(<<acc>>, ExProd(scal)) = ExOne

---------------------------------------------------------------------------
(* C18: whenever diracgamma::contract_with returns true, self, other and   *)
(* every factor between them carry the same representation label, every    *)
(* Identity written carries that label, and no factor of another label is  *)
(* consumed or relabelled.                                                 *)

lastGammaCall == last.self >= 1 /\ last.w[last.self].k = "G"

lastLabel == last.w[last.self].rl

C18_SameLabelOnly ==
    (lastGammaCall /\ last.ok) =>
        /\ \A i \in last.self..last.other :
              IsCliffordFactor(last.w[i]) /\ last.w[i].rl = lastLabel
        /\ \A i \in 1..Len(last.v) : \A t \in last.v[i] : \A j \in 1..Len(t.w) :
              t.w[j].k = "ONE" => t.w[j].rl = lastLabel
        /\ \A i \in 1..Len(last.w) :
              (IsCliffordFactor(last.w[i]) /\ last.w[i].rl # lastLabel) =>
                  last.v[i] = ExFac(last.w[i])

---------------------------------------------------------------------------
(* C19: tensor::replace_contr_index tries self's first index and then      *)
(* self's second index.  When the index tried is symbolic and forms a      *)
(* dummy pair with an index of other, their dimensions being comparable,   *)
(* exactly that index of other is replaced by self's remaining index       *)
(* carrying the minimal dimension, self becomes 1 and the result is true;  *)
(* the second index is tried only when the first has no dummy partner.     *)

\* the call reached replace_contr_index: self is a delta, or a metric whose
\* partner is no delta
lastReplaceCall ==
    /\ last.self >= 1
    /\ \/ last.w[last.self].k = "delta"
       \/ last.w[last.self].k = "g" /\ last.w[last.other].k # "delta"

\* the indices of o that pair with x: same name, opposite variance,
\* dimensions that can be ordered
Partners(o, x) ==
    {i \in 1..Len(o.ix) :
        /\ x.sym /\ o.ix[i].sym
        /\ o.ix[i].val = x.val /\ o.ix[i].co # x.co
        /\ dims_comparable(x.dim, o.ix[i].dim)}

\* the factor o rebuilt with the index list ix, as its constructor
\* evaluates it
Rebuilt(o, ix) ==
    IF o.k = "g" THEN lorentz_g(ix[1], ix[2])
    ELSE IF o.k = "delta" THEN delta_tensor(ix[1], ix[2])
    ELSE ExFac([o EXCEPT !.ix = ix])

\* the call contracted x of self with the first partner in other and left
\* fr in its place
ContractedAt(x, fr) ==
    LET o == last.w[last.other]
        i == CHOOSE m \in Partners(o, x) : \A n \in Partners(o, x) : m <= n
    IN  /\ last.ok
        /\ last.v[last.self] = ExOne
        /\ last.v[last.other] =
              Rebuilt(o, [o.ix EXCEPT
                            ![i] = replace_dim(fr, minimal_dim(x.dim, o.ix[i].dim))])
        /\ \A j \in 1..Len(last.w) :
              j \notin {last.self, last.other} => last.v[j] = ExFac(last.w[j])

C19_ReplaceContrIndex ==
    lastReplaceCall =>
        LET f == last.w[last.self]
            o == last.w[last.other]
        IN  IF Partners(o, f.ix[1]) # {} THEN ContractedAt(f.ix[1], f.ix[2])
            ELSE IF Partners(o, f.ix[2]) # {} THEN ContractedAt(f.ix[2], f.ix[1])
            ELSE ~last.ok /\ last.v = ExVector(last.w)

\* the second index of a metric of dimension D contracted with a Gamma of
\* dimension 4: the Gamma gets the metric's first index in dimension 4
C19_Witness ==
    /\ lastReplaceCall
    /\ last.ok
    /\ last.w[last.self].k = "g"
    /\ last.w[last.self].ix[2].val = 2
    /\ last.w[last.self].ix[2].dim = DimD
    /\ last.w[last.other].k = "G"
    /\ last.w[last.other].ix[1].dim = <<4>>
    /\ last.v[last.other] =
          ExFac([last.w[last.other] EXCEPT
                   !.ix = <<replace_dim(last.w[last.self].ix[1], <<4>>)>>])

---------------------------------------------------------------------------
(* C20: a rule that does not apply answers "no contraction" and leaves     *)
(* self, other and every other factor as they were: (a) the paired indices *)
(* of a tensor and its partner have dimensions that cannot be ordered,     *)
(* (b) the partner of a metric or of a spinor metric is a delta, (c) a     *)
(* factor that is no Clifford object stands between the two Gammas, at any *)
(* gap >= 1.                                                               *)

lastRefused == ~last.ok /\ last.v = ExVector(last.w)

\* self is a metric or a delta, and wherever an index of self meets its
\* name with the opposite variance in other the dimensions cannot be ordered
lastIncomparable ==
    /\ last.self >= 1
    /\ last.w[last.self].k \in {"g", "delta"}
    /\ \E a \in 1..2 : \E b \in 1..Len(last.w[last.other].ix) :
          /\ last.w[last.self].ix[a].sym
          /\ last.w[last.self].ix[a].val = last.w[last.other].ix[b].val
          /\ last.w[last.self].ix[a].co # last.w[last.other].ix[b].co
    /\ \A a \in 1..2 : \A b \in 1..Len(last.w[last.other].ix) :
          last.w[last.self].ix[a].val = last.w[last.other].ix[b].val =>
              ~dims_comparable(last.w[last.self].ix[a].dim,
                               last.w[last.other].ix[b].dim)

lastMetricDelta ==
    /\ last.self >= 1
    /\ last.w[last.self].k \in {"g", "spin"}
    /\ last.w[last.other].k = "delta"

lastNonCliffordBetween ==
    /\ lastGammaCall
    /\ last.w[last.other].k = "G"
    /\ \E i \in (last.self + 1)..(last.other - 1) : ~IsCliffordFactor(last.w[i])

C20_RefusalChangesNothing ==
    /\ lastIncomparable => lastRefused
    /\ lastMetricDelta => lastRefused
    /\ lastNonCliffordBetween => lastRefused
    /\ (last.self >= 1 /\ ~last.ok) => last.v = ExVector(last.w)

\* Gamma(mu) Gamma(a) g Gamma(b) Gamma(mu): gap 3 with a metric in it
C20_Witness ==
    /\ lastNonCliffordBetween
    /\ last.other - last.self = 4
    /\ IsCliffordFactor(last.w[2]) /\ last.w[3].k = "g" /\ IsCliffordFactor(last.w[4])
    /\ lastRefused

---------------------------------------------------------------------------
(* C21: a Minkowski metric with two concrete indices n1, n2 is 0 when      *)
(* n1 # n2, +1 (pos_sig false) or -1 (pos_sig true) when n1 = n2 = 0 and   *)
(* the opposite sign when n1 = n2 > 0, whatever the variances; hence       *)
(* g(0,0) g(k,k) = -1 for k > 0 under both signatures.                     *)

lastConcreteMetric ==
    /\ call.op = "minkmetric" /\ res.done
    /\ ~call.ix[1].sym /\ ~call.ix[2].sym

\* the component g(0,0) of the metric of the call
g00 == minkmetric_eval(call.pos_sig, numvaridx(0, FALSE, DimD), numvaridx(0, FALSE, DimD))

C21_ConcreteMetric ==
    lastConcreteMetric =>
        LET n1 == call.ix[1].val
            n2 == call.ix[2].val
            s0 == IF call.pos_sig THEN 0 - 1 ELSE 1
        IN  /\ res.err = "none"
            /\ n1 # n2 => res.ex = ExNum(<<>>)
            /\ (n1 = n2 /\ n1 = 0) => res.ex = ExNum(<<s0>>)
            /\ (n1 = n2 /\ n1 > 0) =>
                  /\ res.ex = ExNum(<<0 - s0>>)
                  /\ ExMul(g00, res.ex) = ExNum(<<0 - 1>>)

\* g(2,2) under the positive signature
C21_Witness ==
    /\ lastConcreteMetric
    /\ call.pos_sig
    /\ call.ix[1].val = 2 /\ call.ix[2].val = 2
    /\ res.ex = ExNum(<<1>>)

---------------------------------------------------------------------------
(* C22: a Minkowski metric whose two indices have opposite variance is the *)
(* Delta tensor on the two indices, both rewritten to the smaller of their *)
(* dimensions, for symbolic and for concrete index values alike.           *)

lastMixedMetric ==
    /\ call.op = "minkmetric" /\ res.done
    /\ call.ix[1].co # call.ix[2].co

C22_MixedVarianceIsDelta ==
    lastMixedMetric =>
        LET md == minimal_dim(call.ix[1].dim, call.ix[2].dim)
        IN  /\ res.err = "none"
            /\ res.ex = delta_tensor(replace_dim(call.ix[1], md),
                                     replace_dim(call.ix[2], md))

---------------------------------------------------------------------------
(* C23: for two spinor metrics, contract_with gives +2 when slots 1, 2 of  *)
(* self pair with slots 1, 2 of other and -2 when they pair crosswise;     *)
(* with one shared pair it gives +Delta of the two remaining indices when  *)
(* the paired slots have the same position and -Delta when they differ;    *)
(* other becomes 1; exchanging the two indices of either factor negates    *)
(* the result.  A spinor metric with concrete indices is 0 for equal       *)
(* values, +1 if the first is smaller, -1 otherwise.                       *)

lastSpinContract == call.op = "spin_contract" /\ res.done

\* slot a of self and slot b of other are a dummy pair
Paired(a, b) == is_dummy_pair(call.w[1].ix[a], call.w[2].ix[b])

NumPaired == Cardinality({p \in (1..2) \X (1..2) : Paired(p[1], p[2])})

Exchanged(f) == [f EXCEPT !.ix = <<f.ix[2], f.ix[1]>>]

\* what self is after the call on the two factors
SelfAfter(f1, f2) == spinmetric_contract_with(ExVector(<<f1, f2>>), 1, 2).v[1]

ExpectedSpin ==
    LET s1 == call.w[1].ix[1]
        s2 == call.w[1].ix[2]
        o1 == call.w[2].ix[1]
        o2 == call.w[2].ix[2]
    IN  IF Paired(1, 1) /\ Paired(2, 2) THEN ExNum(<<2>>)
        ELSE IF Paired(1, 2) /\ Paired(2, 1) THEN ExNum(<<0 - 2>>)
        ELSE IF Paired(1, 1) THEN delta_tensor(s2, o2)
        ELSE IF Paired(2, 2) THEN delta_tensor(s1, o1)
        ELSE IF Paired(1, 2) THEN ExNeg(delta_tensor(s2, o1))
        ELSE ExNeg(delta_tensor(s1, o2))

lastSpinEval ==
    /\ call.op = "spinmetric" /\ res.done
    /\ ~call.ix[1].sym /\ ~call.ix[2].sym

C23_SpinorMetric ==
    /\ (lastSpinContract /\ NumPaired > 0) =>
          /\ res.ex.ok
          /\ res.ex.v[1] = ExpectedSpin
          /\ res.ex.v[2] = ExOne
          /\ SelfAfter(Exchanged(call.w[1]), call.w[2]) = ExNeg(res.ex.v[1])
          /\ SelfAfter(call.w[1], Exchanged(call.w[2])) = ExNeg(res.ex.v[1])
    /\ lastSpinEval =>
          LET n1 == call.ix[1].val
              n2 == call.ix[2].val
          IN  /\ n1 = n2 => res.ex = ExNum(<<>>)
              /\ n1 < n2 => res.ex = ExNum(<<1>>)
              /\ n1 > n2 => res.ex = ExNum(<<0 - 1>>)

\* eps(B~, A~) eps(A., B.): the crosswise full contraction
C23_Witness ==
    /\ lastSpinContract
    /\ Paired(1, 2) /\ Paired(2, 1)
    /\ res.ex.v[1] = ExNum(<<0 - 2>>)

---------------------------------------------------------------------------
(* C24: an epsilon tensor with concrete indices is the sign of the         *)
(* permutation that sorts its index values, 0 if a value repeats; the      *)
(* Minkowski epsilon multiplies that sign by one factor for each covariant *)
(* index, the component g(k,k) of the metric of its signature at the value *)
(* k of the index: for the value 0, -1 if pos_sig and +1 otherwise; for a  *)
(* value k > 0 the opposite sign.                                          *)

lastEpsilonEval ==
    /\ call.op = "tensepsilon" /\ res.done /\ res.err = "none"
    /\ \A j \in 1..Len(call.ix) : ~call.ix[j].sym

\* the sign of the sorting permutation by its inversions
SortSign(iv) ==
    LET inv == {p \in (1..Len(iv)) \X (1..Len(iv)) :
                   p[1] < p[2] /\ iv[p[1]] > iv[p[2]]}
    IN  IF Cardinality({iv[j] : j \in 1..Len(iv)}) < Len(iv) THEN 0
        ELSE IF Cardinality(inv) % 2 = 0 THEN 1 ELSE 0 - 1

CallValues == [j \in 1..Len(call.ix) |-> call.ix[j].val]

\* the covariant indices of the call whose metric component is -1
Lowered(pos_sig) ==
    {j \in 1..Len(call.ix) :
        /\ call.ix[j].co
        /\ minkmetric_eval(pos_sig, call.ix[j], call.ix[j]) = ExNum(<<0 - 1>>)}

\* the covariant indices of the call with the value 0
LoweredZero == {j \in 1..Len(call.ix) : call.ix[j].co /\ call.ix[j].val = 0}

Parity(S) == IF Cardinality(S) % 2 = 0 THEN 1 ELSE 0 - 1

C24_EpsilonMetricSigns ==
    lastEpsilonEval =>
        res.ex = ExNum(PConst(
            SortSign(CallValues)
              * (IF call.minkowski THEN Parity(Lowered(call.pos_sig)) ELSE 1)))

\* eps(0~, 1., 2~, 3~) = -1 under the default signature
C24_Witness ==
    /\ lastEpsilonEval
    /\ call.minkowski /\ ~call.pos_sig
    /\ CallValues = <<0, 1, 2, 3>>
    /\ Lowered(FALSE) = {2}
    /\ res.ex = ExNum(<<0 - 1>>)

(* C24 as first stated: the Minkowski epsilon multiplies the sign by one   *)
(* factor for each covariant index bound to the value 0 (-1 if pos_sig, +1 *)
(* otherwise) and by nothing else.                                         *)
C24_ZeroIndexOnly ==
    lastEpsilonEval =>
        res.ex = ExNum(PConst(
            SortSign(CallValues)
              * (IF call.minkowski /\ call.pos_sig THEN Parity(LoweredZero)
                 ELSE 1)))

---------------------------------------------------------------------------
(* C25: contract_with on two epsilon tensors of equal valence n replaces   *)
(* self by s det(M), simplified, where M[i][j] is the metric contraction   *)
(* of slot i of self with slot j of other (Minkowski metric for the        *)
(* Minkowski flavour, else the generic metric for indices with variance    *)
(* and Delta for indices without) and s = -1 for the Minkowski flavour,    *)
(* +1 otherwise; other becomes 1.  A Euclidean epsilon of dimension n      *)
(* contracted with itself over all n indices gives n!.                     *)

lastEpsContract ==
    /\ call.op = "eps_contract" /\ res.done
    /\ call.w[2].k \in EpsKinds
    /\ Len(call.w[1].ix) = Len(call.w[2].ix)

Valence == Len(call.w[1].ix)

IsMinkowski == call.w[1].k \in {"eps", "eps+"}

\* the metric contraction of slot i of self with slot j of other
Entry(i, j) ==
    LET a == call.w[1].ix[i]
        b == call.w[2].ix[j]
    IN  IF IsMinkowski THEN minkmetric_eval(call.w[1].k = "eps+", a, b)
        ELSE IF is_varidx(a) THEN metric_tensor(a, b)
        ELSE delta_tensor(a, b)

\* the product of the entries (i, p[i]), i = from..n
RECURSIVE EntryProd(_, _)
EntryProd(p, from) ==
    IF from > Valence THEN ExOne
    ELSE CMul(Entry(from, p[from]), EntryProd(p, from + 1))

\* the sum over the permutations in P of sign times product
RECURSIVE LeibnizSum(_)
LeibnizSum(P) ==
    IF P = {} THEN {}
    ELSE LET p == CHOOSE q \in P : TRUE
         IN  ExAdd(ExScale(PConst(permutation_sign(p)), EntryProd(p, 1)),
                   LeibnizSum(P \ {p}))

Factorial(n) == IF n = 2 THEN 2 ELSE IF n = 3 THEN 6 ELSE 24

\* every index of self has its dummy partner in the same slot of other, up
\* to a rearrangement of other's slots
FullyContracted ==
    \A i \in 1..Valence : \E j \in 1..Valence :
        is_dummy_pair(call.w[1].ix[i], call.w[2].ix[j])

\* the sign of the arrangement of other's slots against self's
SlotSign ==
    permutation_sign([i \in 1..Valence |->
        CHOOSE j \in 1..Valence : is_dummy_pair(call.w[1].ix[i], call.w[2].ix[j])])

C25_EpsilonDeterminant ==
    lastEpsContract =>
        /\ res.ex.ok
        /\ res.ex.v[2] = ExOne
        /\ res.ex.v[1] =
              ExScale(<<IF IsMinkowski THEN 0 - 1 ELSE 1>>,
                      simplify_indexed(LeibnizSum(Arrangements(Valence, Valence))))
        /\ FullyContracted =>
              res.ex.v[1] = ExNum(<<(IF IsMinkowski THEN 0 - 1 ELSE 1)
                                      * SlotSign * Factorial(Valence)>>)

\* eps(i, j, k) eps(i, j, k) = 3! for indices without variance
C25_Witness ==
    /\ lastEpsContract
    /\ call.w[1] = PlainEps(3, First(3))
    /\ call.w[2] = PlainEps(3, First(3))
    /\ res.ex.v[1] = ExNum(<<6>>)

---------------------------------------------------------------------------
(* C26: a constructor handed a wrong kind of index throws and builds no    *)
(* object: dirac_gamma, metric_tensor, lorentz_g and lorentz_eps need      *)
(* every index to be a varidx, delta_tensor and epsilon_tensor an idx,     *)
(* spinor_metric two spinidx of dimension 2; the epsilon constructors also *)
(* throw when the dimensions of the indices differ or are not the number   *)
(* of indices.  With valid indices the object is built on those indices.   *)

lastConstruct == call.op = "construct" /\ res.done

NeedsVaridx == call.fn \in {"dirac_gamma", "metric_tensor", "lorentz_g", "lorentz_eps"}
NeedsIdx    == call.fn \in {"delta_tensor", "epsilon_tensor"}
IsEpsilon   == call.fn \in {"epsilon_tensor", "lorentz_eps"}

RightKind ==
    \A j \in 1..Len(call.ix) :
        /\ NeedsVaridx => "co" \in DOMAIN call.ix[j]
        /\ NeedsIdx => "val" \in DOMAIN call.ix[j]
        /\ call.fn = "spinor_metric" => "dotted" \in DOMAIN call.ix[j]

RightDim ==
    /\ call.fn = "spinor_metric" =>
          \A j \in 1..2 : call.ix[j].dim = PConst(2)
    /\ IsEpsilon =>
          \A j \in 1..Len(call.ix) : call.ix[j].dim = PConst(Len(call.ix))

C26_ConstructorsReject ==
    lastConstruct =>
        /\ res.err # "none" => DOMAIN res = {"done", "err"}
        /\ ~RightKind => res.err = "invalid_argument"
        /\ (RightKind /\ ~RightDim) => res.err \in {"invalid_argument", "runtime_error"}
        /\ (RightKind /\ RightDim) =>
              /\ res.err = "none"
              /\ res.ex.ix = call.ix

\* spinor_metric on two spinidx of dimension 4
C26_Witness ==
    /\ lastConstruct
    /\ call.fn = "spinor_metric"
    /\ RightKind /\ ~RightDim
    /\ res.err = "runtime_error"

---------------------------------------------------------------------------
(* C27: when the recursion of the trace goes deeper than the limit on the  *)
(* depth of recursion, the call fails with an error instead of going on.   *)

C27_DepthLimited == Len(stack) > max_recursion_level => status = "failed"

\* ---------------------------------------------------------------------------
\* archive.cpp: write_unsigned and read_unsigned, one loop iteration per step.
\* The stream holds the bytes written by write_unsigned followed by the bytes
\* of whatever was archived after it.
\* ---------------------------------------------------------------------------

ArchMaxVal == 260

ArchMaxRest == 1

ArchBytes == {0, 1, 127, 128, 255}

ArchValues == (0..ArchMaxVal) \cup {16383, 16384, 16511}

RECURSIVE Pow2(_)
Pow2(n) == IF n = 0 THEN 1 ELSE 2 * Pow2(n - 1)

ArchRests == UNION {[1..n -> ArchBytes] : n \in 0..ArchMaxRest}

InitArchive ==
    /\ \E n \in ArchValues, rest \in ArchRests :
          /\ wval = n
          /\ rd = [phase |-> "write", v |-> n, rest |-> rest]
    /\ os = <<>>
    /\ w0 = <<>>
    /\ IdleNorm /\ IdleContr /\ IdleTrace /\ IdleCanon /\ IdleEval /\ IdleRec

ArchRest == <<normVars, contrVars, traceVars, canonVars, evalVars, recVars>>

\* while (val > 0x80) { os.put((val & 0x7f) | 0x80); val >>= 7; }
WritePut ==
    /\ rd.phase = "write"
    /\ wval > 128
    /\ os' = Append(os, (wval % 128) + 128)
    /\ wval' = wval \div 128
    /\ UNCHANGED <<rd, ArchRest>>

\* os.put(val); the caller then reads the stream back from its beginning.
WriteLast ==
    /\ rd.phase = "write"
    /\ wval <= 128
    /\ os' = Append(os, wval)
    /\ rd' = [phase |-> "read", v |-> rd.v, rest |-> rd.rest,
              pos |-> 0, ret |-> 0, shift |-> 0, b |-> 0]
    /\ UNCHANGED <<wval, ArchRest>>

stream == os \o rd.rest

\* do { is.get(b); ret |= (b & 0x7f) << shift; shift += 7; } while (b & 0x80);
\* The packets occupy disjoint bit ranges, so the bitwise or is a sum; with the
\* values and streams above the shift stays below 28 and nothing wraps.
ReadGet ==
    /\ rd.phase = "read"
    /\ rd.pos < Len(stream)
    /\ LET b == stream[rd.pos + 1]
           ret == rd.ret + (b % 128) * Pow2(rd.shift)
       IN  rd' = [rd EXCEPT !.b = b, !.pos = rd.pos + 1, !.ret = ret,
                            !.shift = rd.shift + 7,
                            !.phase = IF b >= 128 THEN "read" ELSE "returned"]
    /\ UNCHANGED <<wval, os, ArchRest>>

\* At the end of the stream is.get fails and leaves b as it was: the loop
\* condition stays true and read_unsigned does not return.
ReadPastEnd ==
    /\ rd.phase = "read"
    /\ rd.pos >= Len(stream)
    /\ rd' = [rd EXCEPT !.phase = "hang"]
    /\ UNCHANGED <<wval, os, ArchRest>>

NextArchive == WritePut \/ WriteLast \/ ReadGet \/ ReadPastEnd

SpecArchive == InitArchive /\ [][NextArchive]_vars

\* The documented packet format of an unsigned quantity.
RECURSIVE Packets(_)
Packets(n) == IF n <= 127 THEN <<n>> ELSE <<(n % 128) + 128>> \o Packets(n \div 128)

\* C28: the bytes write_unsigned produces for v are the documented packets of
\* v (one verbatim byte up to 0x7f, otherwise 7-bit packets, least significant
\* first, upper bit set on all but the last), and read_unsigned on those bytes
\* returns v having consumed exactly them.
C28_ArchiveRoundTrip ==
    /\ rd.phase \in {"read", "returned", "hang"} => os = Packets(rd.v)
    /\ rd.phase # "hang"
    /\ rd.phase = "returned" => rd.ret = rd.v /\ rd.pos = Len(os)

---------------------------------------------------------------------------
(* The rule for a Gamma pair three or more factors apart, applied again    *)
(* and again to the term that keeps the pair.                              *)

\* the index name self and other share
lastName == last.w[last.self].ix[1].val

\* the final intervening factor and the ordered product S of the others
lastFinal == last.w[last.other - 1]

lastInner == SubSeq(last.w, last.self + 1, last.other - 2)

\* 2 last S - Gamma(mu) S Gamma(mu') last
CommutedSpan ==
    ExAdd({Term(<<2>>, <<lastFinal>> \o lastInner)},
          {Term(<<0 - 1>>, <<last.w[last.self]>> \o lastInner
                               \o <<last.w[last.other], lastFinal>>)})

\* the number of applications of contract_with to the pair carrying the name
\* n in w, each to the evaluated term that keeps the pair, until fewer than
\* three factors stand between its members
RECURSIVE GeneralSteps(_, _)
GeneralSteps(w, n) ==
    IF PairGap(w, n) < 3 THEN 0
    ELSE LET C == Carriers(w, n)
             i == CHOOSE x \in C : \A y \in C : x <= y
             j == CHOOSE x \in C : \A y \in C : x >= y
             r == diracgamma_contract_with(ExVector(w), i, j)
             kept == {t \in ReevalSum(ExProd(r.v)) : Carriers(t.w, n) # {}}
         IN  IF ~r.ok \/ Cardinality(kept) # 1 THEN 0 - 1
             ELSE 1 + GeneralSteps((CHOOSE t \in kept : TRUE).w, n)

---------------------------------------------------------------------------
(* The word a call of simplify_ncmul returns when no rule has fired.       *)

\* at most one Gamma5 and only in first position, no Identity, no two
\* adjacent Gammas with equal index
FixedPointShape(ss) ==
    /\ \A i \in 2..Len(ss) : ~is_diracgamma5(ss[i])
    /\ \A i \in 1..Len(ss) : ~is_diracone(ss[i])
    /\ \A i \in 1..(Len(ss) - 1) :
          ~(/\ is_diracgamma(ss[i]) /\ is_diracgamma(ss[i + 1])
            /\ op1(ss[i]) = op1(ss[i + 1]))

(* C30: when a call of simplify_ncmul ends with no rule having fired its   *)
(* word has at most one Gamma5, in first position, no Identity and no two  *)
(* adjacent Gammas with equal index; a word that has become empty is       *)
(* returned as the single Identity with the call's sign +1; so the word    *)
(* the client gets has a Gamma5 in first position or none.                 *)
C30_FixedPointShape ==
    /\ (pc = "merged" /\ ~something_changed /\ Len(s) > 0) => FixedPointShape(s)
    /\ (pc \in {"merged", "done"} /\ Len(s) = 0) => sign = 1
    /\ pc = "done" =>
          IF Len(s) = 0 THEN v = <<dirac_ONE(TheFac(w0[1]).rl)>>
          ELSE v = s /\ FixedPointShape(v)

\* a fixed point with a Gamma5 before Gammas, reached through re-evaluation
C30_Witness ==
    /\ pc = "done" /\ ncalls >= 2 /\ ~something_changed
    /\ Len(v) >= 3 /\ is_diracgamma5(v[1]) /\ is_diracgamma(v[2])

=============================================================================
